---- MODULE Spec2Model ----
(***************************************************************************)
(* Authentication subsystem of the API server: four lowdb repositories     *)
(* (users, refresh tokens, token blacklist, password-reset tokens), each   *)
(* with its own Low instance over the one JSON file, the JWT utilities and *)
(* LocalAuthService.                                                       *)
(*                                                                         *)
(* Execution model.  Node runs every request as an async function; control *)
(* changes hands only at an await on file I/O.  One step of the model is   *)
(* the completion of one I/O (a file read, or the landing of a file write) *)
(* together with the synchronous code that follows it up to the next I/O.  *)
(* Low.read() replaces db.data by a freshly parsed document when the file  *)
(* exists and leaves db.data alone otherwise; Low.write() serialises       *)
(* db.data at the time of the call and hands the text to the steno Writer  *)
(* of that Low instance, which writes one text at a time and keeps only    *)
(* the latest text that arrived while it was busy.                         *)
(***************************************************************************)
EXTENDS Integers, Sequences, FiniteSets, TLC

VARIABLES
    fileExists,   \* the JSON file is on disk
    file,         \* its parsed content
    mem,          \* mem[r]         : db.data of repository r
    initialized,  \* initialized[r] : the repository's initialized flag
    wInflight,    \* wInflight[r]   : text the Writer of r is writing
    wNext,        \* wNext[r]       : text queued behind it (#nextData)
    runq,         \* requests whose awaited write has just resolved
    now,          \* Math.floor(Date.now() / 1000)
    nextTok,      \* source of fresh random token strings
    loc,          \* loc[p] : position and locals of request p
    budget,       \* number of operations that may still start
    overlapped,   \* two operations have been in flight at the same time
    hist          \* history of calls and results, for stating properties:
                  \*   issued     : reset records returned by createResetToken
                  \*   revCalls   : revCalls[u], calls started so far that
                  \*                revoke reset tokens of user u
                  \*   superseded : reset tokens followed by a completed
                  \*                createResetToken for the same user
                  \*   handedOut  : ids returned by UserRepository.create,
                  \*                in order of return
                  \*   tokens     : token pairs returned by register / login
                  \*   loggedOut  : access tokens whose logout has returned
                  \*   resetOk    : reset tokens a resetPassword succeeded with
                  \*   resetTwice : a resetPassword succeeded with a token
                  \*                another one had succeeded with
                  \*   resetDone  : users whose password a resetPassword has
                  \*                reset
                  \*   refreshed  : refresh tokens a refreshAccessToken has
                  \*                succeeded with
                  \*   changedTo  : the new passwords of the changePassword
                  \*                calls that succeeded, in order
                  \*   revoked    : users whose refresh tokens a
                  \*                deleteByUserId that has returned removed

vars == <<fileExists, file, mem, initialized, wInflight, wNext, runq, now,
          nextTok, loc, budget, overlapped, hist>>

storeVars == <<fileExists, file, mem, initialized, wInflight, wNext>>

\* ---------------------------------------------------------------- bounds
Procs == {1, 2}
UserIds == {1, 2}
MaxTime == 2
MaxResetCalls == 4
MaxTokens == 3
ResetTtls == {2}

\* ------------------------------------------------------------- documents
Repos == {"user", "refresh", "blacklist", "reset", "userService"}
TableNames == {"users", "refreshTokens", "tokenBlacklist", "passwordResetTokens"}

\* A document: the set of top-level keys it has, and the four arrays (an
\* array whose key is missing is kept empty).
Doc(keys, users, refreshTokens, tokenBlacklist, passwordResetTokens) ==
    [keys |-> keys, users |-> users, refreshTokens |-> refreshTokens,
     tokenBlacklist |-> tokenBlacklist,
     passwordResetTokens |-> passwordResetTokens]

EmptyDoc == Doc({}, <<>>, <<>>, <<>>, <<>>)

\* The default data handed to `new Low(adapter, defaultData)`.
DefaultData(r) ==
    CASE r \in {"user", "userService"} -> EmptyDoc
      [] r = "refresh"   -> [EmptyDoc EXCEPT !.keys = {"refreshTokens"}]
      [] r = "blacklist" -> [EmptyDoc EXCEPT !.keys = {"tokenBlacklist"}]
      [] r = "reset"     -> [EmptyDoc EXCEPT !.keys = {"passwordResetTokens"}]

\* db/seed.js: users, microposts and an empty passwordResetTokens array.
SeedUser(id, email, hash) ==
    [id |-> id, email |-> email, passwordHash |-> hash]

\* ------------------------------------------------------------ sequences
RECURSIVE SelectIdx(_, _, _)
\* indices i >= from of s with Test(s[i]), in order
SelectIdx(s, Test(_), from) ==
    IF from > Len(s) THEN <<>>
    ELSE IF Test(s[from]) THEN <<from>> \o SelectIdx(s, Test, from + 1)
         ELSE SelectIdx(s, Test, from + 1)

\* Array.prototype.find: <<x>> for the first match, <<>> for undefined
Find(s, Test(_)) ==
    LET idx == SelectIdx(s, Test, 1)
    IN IF idx = <<>> THEN <<>> ELSE <<s[idx[1]]>>

\* Array.prototype.filter
Filter(s, Test(_)) == SelectSeq(s, Test)

\* Array.prototype.map
Map(s, F(_)) == [i \in 1..Len(s) |-> F(s[i])]

\* ------------------------------------------------------------- lowdb
\* Low.read(): `const data = await this.adapter.read(); if (data) this.data = data`
LowRead(r) == IF fileExists THEN file ELSE mem[r]

NoWrite == [busy |-> FALSE, snap |-> EmptyDoc, group |-> <<>>, chain |-> <<>>]

\* Low.write() -> steno Writer.write(text) called by request p with db.data = doc.
\* An idle Writer starts writing; a busy one keeps the text as #nextData.
StenoWrite(r, p, doc) ==
    IF wInflight[r].busy
    THEN /\ wNext' = [wNext EXCEPT ![r] =
                        [busy |-> TRUE, snap |-> doc,
                         group |-> Append(wNext[r].group, p), chain |-> <<>>]]
         /\ UNCHANGED wInflight
    ELSE /\ wInflight' = [wInflight EXCEPT ![r] =
                        [busy |-> TRUE, snap |-> doc, group |-> <<>>,
                         chain |-> <<p>>]]
         /\ UNCHANGED wNext

\* ----------------------------------------------------------- requests
NoVal == [kind |-> "none"]
Null == [kind |-> "null"]
Record(rec) == [kind |-> "record", rec |-> rec]
Value(v) == [kind |-> "value", v |-> v]
Failure(code, status) == [kind |-> "error", code |-> code, status |-> status]

Idle == [op |-> "none", pc |-> "idle", repo |-> "none", phase |-> 0,
         alias |-> FALSE, arg |-> NoVal, ret |-> NoVal]

\* _safeRead entry: _init / _ensureInitialized reads first when the
\* repository has not been initialized yet
EnterSafeRead(r) == IF initialized[r] THEN "read" ELSE "init"

Request(op, r, arg) ==
    [op |-> op, pc |-> EnterSafeRead(r), repo |-> r, phase |-> 1,
     alias |-> FALSE, arg |-> arg, ret |-> NoVal]

Busy(p) == loc[p].pc \notin {"idle", "done"}

\* the request awaits the db.read() of _safeRead on repository r
AtRead(p, r, op, phase) ==
    /\ runq = <<>>
    /\ loc[p].pc = "read"
    /\ loc[p].repo = r
    /\ loc[p].op = op
    /\ loc[p].phase = phase

\* the write awaited by p has resolved and p runs next
Resumed(p, pc) ==
    /\ runq # <<>>
    /\ Head(runq) = p
    /\ loc[p].pc = pc
    /\ runq' = Tail(runq)

\* A read that replaces db.data of the reset repository (the file exists)
\* leaves every `data` reference taken earlier pointing at the old document.
Unalias(l, r) ==
    [q \in Procs |->
        IF r = "reset" /\ fileExists /\ l[q].alias
        THEN [l[q] EXCEPT !.alias = FALSE]
        ELSE l[q]]

\* a new operation can start on p
CanCall(p) ==
    /\ runq = <<>>
    /\ ~Busy(p)
    /\ budget > 0

StartCall(p) ==
    /\ budget' = budget - 1
    /\ overlapped' = (overlapped \/ \E q \in Procs \ {p} : Busy(q))

\* the request ends with result ret
Done(l, p, ret) == [l EXCEPT ![p].pc = "done", ![p].ret = ret, ![p].alias = FALSE]

\* ------------------------------------------------- initialization, I/O
TableOf(r) ==
    CASE r \in {"user", "userService"} -> "users"
      [] r = "refresh"   -> "refreshTokens"
      [] r = "blacklist" -> "tokenBlacklist"
      [] r = "reset"     -> "passwordResetTokens"

\* _init / _ensureInitialized: read, create the repository's table when the
\* document lacks it, and write (UserRepository writes unconditionally).
EnsureInitialized(p, r) ==
    /\ runq = <<>>
    /\ loc[p].pc = "init"
    /\ loc[p].repo = r
    /\ LET d  == LowRead(r)
           d1 == [d EXCEPT !.keys = @ \cup {TableOf(r)}]
       IN /\ mem' = [mem EXCEPT ![r] = d1]
          /\ IF r \in {"user", "userService"} \/ TableOf(r) \notin d.keys
             THEN /\ StenoWrite(r, p, d1)
                  /\ loc' = [Unalias(loc, r) EXCEPT ![p].pc = "initw"]
                  /\ UNCHANGED initialized
             ELSE /\ initialized' = [initialized EXCEPT ![r] = TRUE]
                  /\ loc' = [Unalias(loc, r) EXCEPT ![p].pc = "read"]
                  /\ UNCHANGED <<wInflight, wNext>>
    /\ UNCHANGED <<fileExists, file, runq, now, nextTok, budget, overlapped,
                   hist>>

\* the write of _init / _ensureInitialized has resolved
Initialized(p, r) ==
    /\ Resumed(p, "initw")
    /\ loc[p].repo = r
    /\ initialized' = [initialized EXCEPT ![r] = TRUE]
    /\ loc' = [loc EXCEPT ![p].pc = "read"]
    /\ UNCHANGED <<fileExists, file, mem, wInflight, wNext, now, nextTok,
                   budget, overlapped, hist>>

\* The Writer of repository r finishes the text it is writing (temp file
\* renamed over the database file).  The requests queued on that text
\* resume; a text that arrived meanwhile is written next, and the request
\* that started the Writer resumes once nothing is left to write.
WriteLands(r) ==
    /\ runq = <<>>
    /\ wInflight[r].busy
    /\ fileExists' = TRUE
    /\ file' = wInflight[r].snap
    /\ IF wNext[r].busy
       THEN /\ wInflight' = [wInflight EXCEPT ![r] =
                               [wNext[r] EXCEPT !.chain = wInflight[r].chain]]
            /\ wNext' = [wNext EXCEPT ![r] = NoWrite]
            /\ runq' = wInflight[r].group
       ELSE /\ wInflight' = [wInflight EXCEPT ![r] = NoWrite]
            /\ wNext' = wNext
            /\ runq' = wInflight[r].group \o wInflight[r].chain
    /\ UNCHANGED <<mem, initialized, now, nextTok, loc, budget, overlapped,
                   hist>>

\* the clock advances
Tick ==
    /\ runq = <<>>
    /\ now < MaxTime
    /\ now' = now + 1
    /\ UNCHANGED <<storeVars, runq, nextTok, loc, budget, overlapped,
                   hist>>


\* ============================================ PasswordResetRepository
ResetRec(userId, token, expiresAt) ==
    [userId |-> userId, token |-> token, expiresAt |-> expiresAt,
     used |-> FALSE]

\* rt => rt.token === token && !rt.used && rt.expiresAt > now
isValidToken(rt, token, t) ==
    rt.token = token /\ ~rt.used /\ rt.expiresAt > t

\* the lookup of findByToken on a document
findByTokenIn(d, token, t) ==
    LET Test(rt) == isValidToken(rt, token, t)
        hit == Find(d.passwordResetTokens, Test)
    IN IF hit = <<>> THEN Null ELSE Record(hit[1])

\* the forEach of invalidateUserTokens: marks, and counts what it marked
invalidateIn(d, userId) ==
    LET Hit(rt) == rt.userId = userId /\ ~rt.used
        Mark(rt) == IF Hit(rt) THEN [rt EXCEPT !.used = TRUE] ELSE rt
    IN [doc |-> [d EXCEPT !.passwordResetTokens = Map(@, Mark)],
        count |-> Len(Filter(d.passwordResetTokens, Hit))]

\* the find and assignment of markTokenAsUsed
markUsedIn(d, token) ==
    LET Test(rt) == rt.token = token
        idx == SelectIdx(d.passwordResetTokens, Test, 1)
    IN IF idx = <<>> THEN [doc |-> d, found |-> FALSE]
       ELSE [doc |-> [d EXCEPT !.passwordResetTokens[idx[1]].used = TRUE],
             found |-> TRUE]

\* the filter of cleanupExpiredTokens
cleanupIn(d, t) ==
    LET Keep(rt) == rt.expiresAt > t \/ ~rt.used
    IN [d EXCEPT !.passwordResetTokens = Filter(@, Keep)]

\* the document lacks the passwordResetTokens array: property access on
\* undefined throws a TypeError out of the repository method
NoResetTable(d) == "passwordResetTokens" \notin d.keys

PasswordResetRepository_init(p) == EnsureInitialized(p, "reset")

PasswordResetRepository_initialized(p) == Initialized(p, "reset")

IssuedTokens == {i.token : i \in hist.issued}

IssuedTo(token) == CHOOSE i \in hist.issued : i.token = token

\* the operations that run createResetToken: the repository method called
\* directly, and forgotPassword (authService.js line 398)
ResetCreators == {"createResetToken", "forgotPassword"}

\* a token value is left for one more createResetToken
TokenLeft ==
    nextTok + Cardinality({q \in Procs : Busy(q) /\ loc[q].op \in ResetCreators
                                           /\ loc[q].pc \in {"init", "initw", "read", "invalidated"}})
         <= MaxTokens

\* createResetToken(userId, expiresIn) is called
createResetToken(p, userId, expiresIn) ==
    /\ CanCall(p)
    /\ StartCall(p)
    /\ TokenLeft
    /\ hist' = [hist EXCEPT !.revCalls[userId] = @ + 1]
    /\ loc' = [loc EXCEPT ![p] =
                 Request("createResetToken", "reset",
                         [userId |-> userId, expiresIn |-> expiresIn,
                          filePresent |-> fileExists,
                          revAtCall |-> hist.revCalls[userId] + 1,
                          prior |-> {i.token : i \in {j \in hist.issued : j.userId = userId}}])]
    /\ UNCHANGED <<storeVars, runq, now, nextTok>>

\* line 74: `const data = await this._safeRead()`, then the call of
\* invalidateUserTokens up to its own read
createResetToken_read(p) ==
    /\ \E op \in ResetCreators : AtRead(p, "reset", op, 1)
    /\ mem' = [mem EXCEPT !["reset"] = LowRead("reset")]
    /\ loc' = [Unalias(loc, "reset") EXCEPT ![p].alias = TRUE, ![p].phase = 2]
    /\ UNCHANGED <<fileExists, file, initialized, wInflight, wNext, runq, now,
                   nextTok, budget, overlapped, hist>>

\* lines 80-98: the new record is pushed onto `data` (the document of the
\* first read) and db.data is written
pushAndWrite(p, l, d) ==
    LET a   == l[p].arg
        rec == ResetRec(a.userId, nextTok, now + a.expiresIn)
        d2  == IF l[p].alias
               THEN [d EXCEPT !.passwordResetTokens = Append(@, rec)]
               ELSE d
    IN /\ mem' = [mem EXCEPT !["reset"] = d2]
       /\ StenoWrite("reset", p, d2)
       /\ nextTok' = nextTok + 1
       /\ loc' = [l EXCEPT ![p].pc = "written", ![p].ret = Record(rec)]

\* line 77: the read and forEach of invalidateUserTokens; when nothing was
\* marked there is no write to await and lines 80-98 follow at once
createResetToken_invalidate(p) ==
    /\ \E op \in ResetCreators : AtRead(p, "reset", op, 2)
    /\ LET d   == LowRead("reset")
           l   == [Unalias(loc, "reset") EXCEPT ![p].phase = 3]
           inv == invalidateIn(d, loc[p].arg.userId)
       IN IF NoResetTable(d)
          THEN /\ mem' = [mem EXCEPT !["reset"] = d]
               /\ loc' = Done(l, p, Failure("TypeError", 500))
               /\ UNCHANGED <<wInflight, wNext, nextTok>>
          ELSE IF inv.count > 0
          THEN /\ mem' = [mem EXCEPT !["reset"] = inv.doc]
               /\ StenoWrite("reset", p, inv.doc)
               /\ loc' = [l EXCEPT ![p].pc = "invalidated"]
               /\ UNCHANGED nextTok
          ELSE pushAndWrite(p, l, d)
    /\ UNCHANGED <<fileExists, file, initialized, runq, now, budget, overlapped,
                   hist>>

\* the write of invalidateUserTokens has resolved: lines 80-98
createResetToken_push(p) ==
    /\ Resumed(p, "invalidated")
    /\ pushAndWrite(p, loc, mem["reset"])
    /\ UNCHANGED <<fileExists, file, initialized, now, budget, overlapped,
                   hist>>

\* line 100: the write has resolved, the record is returned
createResetToken_return(p) ==
    /\ Resumed(p, "written")
    /\ loc[p].op = "createResetToken"
    /\ loc' = Done(loc, p, loc[p].ret)
    /\ hist' = [hist EXCEPT
         !.issued = @ \cup
            {[token |-> loc[p].ret.rec.token, userId |-> loc[p].arg.userId,
              expiresAt |-> loc[p].ret.rec.expiresAt,
              filePresent |-> loc[p].arg.filePresent,
              revAtCall |-> loc[p].arg.revAtCall]},
         !.superseded = @ \cup loc[p].arg.prior]
    /\ UNCHANGED <<storeVars, now, nextTok, budget, overlapped>>

\* findByToken(token) is called with a token string the caller was given
findByToken(p, token) ==
    /\ CanCall(p)
    /\ StartCall(p)
    /\ loc' = [loc EXCEPT ![p] =
                 Request("findByToken", "reset",
                         [token |-> token,
                          wasSuperseded |-> token \in hist.superseded])]
    /\ UNCHANGED <<storeVars, runq, now, nextTok, hist>>

findByToken_read(p) ==
    /\ AtRead(p, "reset", "findByToken", 1)
    /\ LET d == LowRead("reset")
       IN /\ mem' = [mem EXCEPT !["reset"] = d]
          /\ loc' = Done(Unalias(loc, "reset"), p,
                         IF NoResetTable(d) THEN Failure("TypeError", 500)
                         ELSE findByTokenIn(d, loc[p].arg.token, now))
    /\ UNCHANGED <<fileExists, file, initialized, wInflight, wNext, runq, now,
                   nextTok, budget, overlapped, hist>>

\* the user a revoking call on `token` is about (none for an unknown token)
RevokedUser(token) ==
    IF token \in IssuedTokens THEN {IssuedTo(token).userId} ELSE {}

markTokenAsUsed(p, token) ==
    /\ CanCall(p)
    /\ StartCall(p)
    /\ hist' = [hist EXCEPT !.revCalls =
                   [u \in UserIds |->
                      IF u \in RevokedUser(token) THEN @[u] + 1 ELSE @[u]]]
    /\ loc' = [loc EXCEPT ![p] =
                 Request("markTokenAsUsed", "reset", [token |-> token])]
    /\ UNCHANGED <<storeVars, runq, now, nextTok>>

markTokenAsUsed_read(p) ==
    /\ AtRead(p, "reset", "markTokenAsUsed", 1)
    /\ LET d == LowRead("reset")
           m == markUsedIn(d, loc[p].arg.token)
           l == Unalias(loc, "reset")
       IN IF NoResetTable(d)
          THEN /\ mem' = [mem EXCEPT !["reset"] = d]
               /\ loc' = Done(l, p, Failure("TypeError", 500))
               /\ UNCHANGED <<wInflight, wNext>>
          ELSE IF ~m.found
          THEN /\ mem' = [mem EXCEPT !["reset"] = d]
               /\ loc' = Done(l, p, Value(FALSE))
               /\ UNCHANGED <<wInflight, wNext>>
          ELSE /\ mem' = [mem EXCEPT !["reset"] = m.doc]
               /\ StenoWrite("reset", p, m.doc)
               /\ loc' = [l EXCEPT ![p].pc = "written", ![p].ret = Value(TRUE)]
    /\ UNCHANGED <<fileExists, file, initialized, runq, now, nextTok, budget,
                   overlapped, hist>>

invalidateUserTokens(p, userId) ==
    /\ CanCall(p)
    /\ StartCall(p)
    /\ hist' = [hist EXCEPT !.revCalls[userId] = @ + 1]
    /\ loc' = [loc EXCEPT ![p] =
                 Request("invalidateUserTokens", "reset", [userId |-> userId])]
    /\ UNCHANGED <<storeVars, runq, now, nextTok>>

invalidateUserTokens_read(p) ==
    /\ AtRead(p, "reset", "invalidateUserTokens", 1)
    /\ LET d   == LowRead("reset")
           inv == invalidateIn(d, loc[p].arg.userId)
           l   == Unalias(loc, "reset")
       IN IF NoResetTable(d)
          THEN /\ mem' = [mem EXCEPT !["reset"] = d]
               /\ loc' = Done(l, p, Failure("TypeError", 500))
               /\ UNCHANGED <<wInflight, wNext>>
          ELSE IF inv.count > 0
          THEN /\ mem' = [mem EXCEPT !["reset"] = inv.doc]
               /\ StenoWrite("reset", p, inv.doc)
               /\ loc' = [l EXCEPT ![p].pc = "written",
                                   ![p].ret = Value(inv.count)]
          ELSE /\ mem' = [mem EXCEPT !["reset"] = d]
               /\ loc' = Done(l, p, Value(0))
               /\ UNCHANGED <<wInflight, wNext>>
    /\ UNCHANGED <<fileExists, file, initialized, runq, now, nextTok, budget,
                   overlapped, hist>>

cleanupExpiredTokens(p) ==
    /\ CanCall(p)
    /\ StartCall(p)
    /\ loc' = [loc EXCEPT ![p] =
                 Request("cleanupExpiredTokens", "reset", NoVal)]
    /\ UNCHANGED <<storeVars, runq, now, nextTok, hist>>

cleanupExpiredTokens_read(p) ==
    /\ AtRead(p, "reset", "cleanupExpiredTokens", 1)
    /\ LET d  == LowRead("reset")
           d2 == cleanupIn(d, now)
           n  == Len(d.passwordResetTokens) - Len(d2.passwordResetTokens)
           l  == Unalias(loc, "reset")
       IN IF NoResetTable(d)
          THEN /\ mem' = [mem EXCEPT !["reset"] = d]
               /\ loc' = Done(l, p, Failure("TypeError", 500))
               /\ UNCHANGED <<wInflight, wNext>>
          ELSE IF n > 0
          THEN /\ mem' = [mem EXCEPT !["reset"] = d2]
               /\ StenoWrite("reset", p, d2)
               /\ loc' = [l EXCEPT ![p].pc = "written", ![p].ret = Value(n)]
          ELSE /\ mem' = [mem EXCEPT !["reset"] = d2]
               /\ loc' = Done(l, p, Value(0))
               /\ UNCHANGED <<wInflight, wNext>>
    /\ UNCHANGED <<fileExists, file, initialized, runq, now, nextTok, budget,
                   overlapped, hist>>

\* the write of markTokenAsUsed, invalidateUserTokens or
\* cleanupExpiredTokens has resolved and the method returns
resetWrite_return(p) ==
    /\ Resumed(p, "written")
    /\ loc[p].op \in {"markTokenAsUsed", "invalidateUserTokens",
                      "cleanupExpiredTokens"}
    /\ loc' = Done(loc, p, loc[p].ret)
    /\ UNCHANGED <<storeVars, now, nextTok, budget, overlapped, hist>>

\* ===================================================== UserRepository
\* the email addresses requests present
Emails == {"alice@example.com", "Alice@Example.com", "bob@example.com"}

\* String.prototype.toLowerCase on those addresses
toLowerCase(e) ==
    CASE e = "Alice@Example.com" -> "alice@example.com"
      [] OTHER -> e

\* a comparison that distinguishes letter case
sameEmail_exact(u, email) == u.email = email

\* users.find(u => u.email.toLowerCase() === email.toLowerCase())
sameEmail(u, email) == toLowerCase(u.email) = toLowerCase(email)

\* the lookup of findByEmail on a document (`data.users || []`)
findByEmailIn(d, email) ==
    LET Test(u) == sameEmail(u, email)
        hit == Find(d.users, Test)
    IN IF hit = <<>> THEN Null ELSE Record(hit[1])

\* users.length > 0 ? Math.max(...users.map(u => u.id)) : 0
maxId(users) ==
    IF Len(users) = 0 THEN 0
    ELSE CHOOSE m \in {users[i].id : i \in 1..Len(users)} :
            \A i \in 1..Len(users) : users[i].id <= m

\* users.findIndex(u => u.id === parseInt(id)): <<index>> or <<>>
findIndexById(users, id) ==
    LET Test(u) == u.id = id
        idx == SelectIdx(users, Test, 1)
    IN IF idx = <<>> THEN <<>> ELSE <<idx[1]>>

\* users.splice(i, 1)
splice(users, i) ==
    [j \in 1..(Len(users) - 1) |-> IF j < i THEN users[j] ELSE users[j + 1]]

\* _toAuthUser: `const { passwordHash, ...userWithoutPassword } = dbUser`
toAuthUser(dbUser) == [id |-> dbUser.id, email |-> dbUser.email]

\* bcrypt.hash(password, rounds): the hash of the password presented
hashPassword(pw) == [hashOf |-> pw]

UserRepository_ensureInitialized(p) == EnsureInitialized(p, "user")

UserRepository_initialized(p) == Initialized(p, "user")

RefreshTokenRepository_ensureInitialized(p) == EnsureInitialized(p, "refresh")

RefreshTokenRepository_initialized(p) == Initialized(p, "refresh")

\* register({email, password}) is called
register(p, email) ==
    /\ CanCall(p)
    /\ StartCall(p)
    /\ loc' = [loc EXCEPT ![p] =
                 Request("register", "user",
                         [email |-> email, checked |-> FALSE,
                          seen |-> <<>>,
                          usersAtCall |-> file.users,
                          refreshAtCall |-> file.refreshTokens,
                          leftBehind |-> FALSE])]
    /\ UNCHANGED <<storeVars, runq, now, nextTok, hist>>

\* register lines 139-145: findByEmail, and the 409 when it finds a user;
\* otherwise the password is hashed and UserRepository.create starts reading
register_findByEmail(p) ==
    /\ AtRead(p, "user", "register", 1)
    /\ LET d   == LowRead("user")
           hit == findByEmailIn(d, loc[p].arg.email)
           l   == [loc EXCEPT ![p].arg.checked = TRUE,
                              ![p].arg.seen = d.users]
       IN /\ mem' = [mem EXCEPT !["user"] = d]
          /\ loc' = IF hit # Null
                    THEN Done(l, p, Failure("EMAIL_ALREADY_EXISTS", 409))
                    ELSE [l EXCEPT ![p].phase = 2]
    /\ UNCHANGED <<fileExists, file, initialized, wInflight, wNext, runq, now,
                   nextTok, budget, overlapped, hist>>

\* UserRepository.create lines 108-125: read, id = max + 1, push, write
register_create(p) ==
    /\ AtRead(p, "user", "register", 2)
    /\ LET d    == LowRead("user")
           user == [id |-> maxId(d.users) + 1, email |-> loc[p].arg.email,
                    passwordHash |-> hashPassword("pw")]
           d2   == [d EXCEPT !.users = Append(@, user)]
       IN IF "users" \notin d.keys
          THEN /\ mem' = [mem EXCEPT !["user"] = d]
               /\ loc' = Done(loc, p, Failure("USER_CREATE_ERROR", 500))
               /\ UNCHANGED <<wInflight, wNext>>
          ELSE /\ mem' = [mem EXCEPT !["user"] = d2]
               /\ StenoWrite("user", p, d2)
               /\ loc' = [loc EXCEPT ![p].pc = "written",
                                     ![p].ret = Record(user)]
    /\ UNCHANGED <<fileExists, file, initialized, runq, now, nextTok, budget,
                   overlapped, hist>>

\* ------------------------------------------------------------ tokens
\* program constants: access token lifetime in seconds, refresh token
\* lifetime in days
JwtExpiresIn == 3600
RefreshDays == 30

\* the access token jwt.sign produces for this payload under the
\* configured secret (generateTokens lines 33-47)
AccessToken(user, t) ==
    [sub |-> user.id, email |-> user.email, iat |-> t, exp |-> t + JwtExpiresIn]

\* the record RefreshTokenRepository.create builds (lines 101-113)
RefreshRec(token, userId, t) ==
    [token |-> token, userId |-> userId, expiresAt |-> t + RefreshDays * 86400,
     lastUsedAt |-> t]

\* register lines 161-170 / login lines 205-211: the user is at hand, the
\* access token is signed, and RefreshTokenRepository.create starts reading
enterRefreshCreate(l, p, user) ==
    [l EXCEPT ![p].pc = EnterSafeRead("refresh"), ![p].repo = "refresh",
              ![p].phase = 3,
              ![p].ret = Record([user |-> user.id,
                                 access_token |-> AccessToken(user, now)])]

\* the write of UserRepository.create has resolved: create returns the user
register_created(p) ==
    /\ Resumed(p, "written")
    /\ loc[p].op = "register"
    /\ loc[p].phase = 2
    /\ hist' = [hist EXCEPT !.handedOut = Append(@, loc[p].ret.rec.id)]
    /\ loc' = enterRefreshCreate(loc, p, loc[p].ret.rec)
    /\ UNCHANGED <<storeVars, now, nextTok, budget, overlapped>>

\* RefreshTokenRepository.create lines 98-117: read, push, write
RefreshTokenRepository_create(p) ==
    /\ runq = <<>>
    /\ loc[p].pc = "read"
    /\ loc[p].repo = "refresh"
    /\ loc[p].phase = 3
    /\ loc[p].op \in {"register", "login"}
    /\ nextTok <= MaxTokens
    /\ LET d   == LowRead("refresh")
           rec == RefreshRec(nextTok, loc[p].ret.rec.user, now)
           d2  == [d EXCEPT !.keys = @ \cup {"refreshTokens"},
                            !.refreshTokens = Append(@, rec)]
       IN /\ mem' = [mem EXCEPT !["refresh"] = d2]
          /\ StenoWrite("refresh", p, d2)
          /\ loc' = [loc EXCEPT ![p].pc = "written",
                                ![p].ret.rec = [user |-> @.user,
                                                access_token |-> @.access_token,
                                                refresh_token |-> nextTok]]
    /\ nextTok' = nextTok + 1
    /\ UNCHANGED <<fileExists, file, initialized, runq, now, budget,
                   overlapped, hist>>

\* the write of RefreshTokenRepository.create has resolved: register / login
\* return the user and the tokens
RefreshTokenRepository_created(p) ==
    /\ Resumed(p, "written")
    /\ loc[p].op \in {"register", "login"}
    /\ loc[p].phase = 3
    /\ loc' = Done(loc, p, loc[p].ret)
    /\ hist' = [hist EXCEPT !.tokens = @ \cup {loc[p].ret.rec}]
    /\ UNCHANGED <<storeVars, now, nextTok, budget, overlapped>>

\* db.read() of RefreshTokenRepository.create rejects (unreadable or corrupt
\* file): generateRefreshToken wraps the error (jwt.js lines 178-183) and
\* register, which has no catch, throws it; leftBehind notes whether the
\* user record this call created is in the file at that moment
register_refreshFails(p) ==
    /\ runq = <<>>
    /\ loc[p].op = "register"
    /\ loc[p].repo = "refresh"
    /\ loc[p].phase = 3
    /\ loc[p].pc \in {"init", "read"}
    /\ loc' = Done([loc EXCEPT ![p].arg.leftBehind =
                       \E i \in 1..Len(file.users) :
                           /\ file.users[i].id = loc[p].ret.rec.user
                           /\ file.users[i].email = loc[p].arg.email],
                   p, Failure("REFRESH_TOKEN_GENERATION_FAILED", 500))
    /\ UNCHANGED <<storeVars, runq, now, nextTok, budget, overlapped, hist>>

\* UserRepository.delete(id) is called
UserRepository_delete(p, id) ==
    /\ CanCall(p)
    /\ StartCall(p)
    /\ loc' = [loc EXCEPT ![p] = Request("delete", "user", [id |-> id])]
    /\ UNCHANGED <<storeVars, runq, now, nextTok, hist>>

\* delete lines 247-261: read, findIndex, splice, write
UserRepository_delete_read(p) ==
    /\ AtRead(p, "user", "delete", 1)
    /\ LET d   == LowRead("user")
           idx == findIndexById(d.users, loc[p].arg.id)
           d2  == [d EXCEPT !.users = splice(@, idx[1])]
       IN IF idx = <<>>
          THEN /\ mem' = [mem EXCEPT !["user"] = d]
               /\ loc' = Done(loc, p, Value(FALSE))
               /\ UNCHANGED <<wInflight, wNext>>
          ELSE /\ mem' = [mem EXCEPT !["user"] = d2]
               /\ StenoWrite("user", p, d2)
               /\ loc' = [loc EXCEPT ![p].pc = "written",
                                     ![p].ret = Value(TRUE)]
    /\ UNCHANGED <<fileExists, file, initialized, runq, now, nextTok, budget,
                   overlapped, hist>>

\* the write of delete has resolved
UserRepository_delete_return(p) ==
    /\ Resumed(p, "written")
    /\ loc[p].op = "delete"
    /\ loc' = Done(loc, p, loc[p].ret)
    /\ UNCHANGED <<storeVars, now, nextTok, budget, overlapped, hist>>

\* ======================================== JWT utilities, token blacklist
\* Tokens presented to the server: the ones generateTokens signed, one
\* with the same claims under a foreign signature, and one that is no JWT.
ForgedToken ==
    [sub |-> 1, email |-> "alice@example.com", iat |-> 0, exp |-> JwtExpiresIn,
     signedBy |-> "other"]
MalformedToken == [malformed |-> TRUE]

\* the string 'Bearer ' + token
Bearer(token) == [bearer |-> token]

\* token.startsWith('Bearer ') ? token.slice(7) : token
stripBearer(token) ==
    IF DOMAIN token = {"bearer"} THEN token.bearer ELSE token

\* the token carries this server's signature
Signed(token) == DOMAIN token = {"sub", "email", "iat", "exp"}

\* jwt.verify(cleanToken, secret, ...) of jsonwebtoken: "ok", or the class
\* of the error it throws: the token is parsed, its signature checked, and
\* then `clockTimestamp >= payload.exp` makes it expired
jwt_verify(token, t) ==
    IF ~Signed(token) THEN "JsonWebTokenError"
    ELSE IF t >= token.exp THEN "TokenExpiredError"
    ELSE "ok"

\* `error instanceof jwt.JsonWebTokenError`: TokenExpiredError and
\* NotBeforeError extend JsonWebTokenError
instanceOfJsonWebTokenError(cls) ==
    cls \in {"JsonWebTokenError", "TokenExpiredError", "NotBeforeError"}

\* verifyToken lines 75-127: the payload, or the error its catch block
\* builds, testing JsonWebTokenError first
verifyToken(token, t) ==
    LET cls == jwt_verify(token, t)
    IN IF cls = "ok" THEN Record(token)
       ELSE IF instanceOfJsonWebTokenError(cls)
       THEN Failure("INVALID_TOKEN", 401)
       ELSE IF cls = "TokenExpiredError" THEN Failure("TOKEN_EXPIRED", 401)
       ELSE IF cls = "NotBeforeError" THEN Failure("TOKEN_NOT_ACTIVE", 401)
       ELSE Failure("TOKEN_VERIFICATION_FAILED", 401)

\* crypto.createHash('sha256').update(token).digest('hex')
generateTokenHash(token) == [sha256 |-> token]

\* the entry addToBlacklist builds (lines 139-149): expiresAt is the exp
\* claim blacklistToken decoded, or 24 hours from now without one
BlacklistEntry(token, expiresAt) ==
    [tokenHash |-> generateTokenHash(token), expiresAt |-> expiresAt]

\* tokenBlacklist.find(entry => entry.tokenHash === tokenHash)
existingEntry(d, token) ==
    LET Test(e) == e.tokenHash = generateTokenHash(token)
    IN Find(d.tokenBlacklist, Test)

\* the lookup of isBlacklisted on a document
isBlacklistedIn(d, token, t) ==
    LET Test(e) == e.tokenHash = generateTokenHash(token) /\ e.expiresAt > t
    IN Find(d.tokenBlacklist, Test) # <<>>

\* bcrypt.compare(password, hash)
verifyPassword(pw, hash) == hash = hashPassword(pw)

\* users.find(u => u.id === parseInt(id))
findByIdIn(d, id) ==
    LET Test(u) == u.id = id
        hit == Find(d.users, Test)
    IN IF hit = <<>> THEN Null ELSE Record(hit[1])

TokenBlacklistRepository_ensureInitialized(p) == EnsureInitialized(p, "blacklist")

TokenBlacklistRepository_initialized(p) == Initialized(p, "blacklist")

\* the access tokens clients hold: those login and register returned
AccessTokens == {r.access_token : r \in hist.tokens}

\* an Error thrown with a message, a code and a status
Thrown(code, status, message) ==
    [kind |-> "error", code |-> code, status |-> status, message |-> message]

\* the message of both errors login throws (lines 189 and 198; the source
\* has it in Japanese)
InvalidCredentialsMessage == "email address or password is incorrect"

\* a login that tells a missing account apart
login_userNotFound_distinct ==
    Thrown("USER_NOT_FOUND", 404, "user not found")

\* login lines 188-193: no user has the email
login_userNotFound ==
    Thrown("INVALID_CREDENTIALS", 401, InvalidCredentialsMessage)

\* login lines 197-202: the password does not match the stored hash
login_invalidPassword ==
    Thrown("INVALID_CREDENTIALS", 401, InvalidCredentialsMessage)

\* login({email, password}) is called
login(p, email, password) ==
    /\ CanCall(p)
    /\ StartCall(p)
    /\ loc' = [loc EXCEPT ![p] =
                 Request("login", "user",
                         [email |-> email, password |-> password,
                          fileAtCall |-> file,
                          changedTo |-> hist.changedTo])]
    /\ UNCHANGED <<storeVars, runq, now, nextTok, hist>>

\* login lines 187-211: findByEmail, the password comparison, the access
\* token; then RefreshTokenRepository.create starts reading
login_findByEmail(p) ==
    /\ AtRead(p, "user", "login", 1)
    /\ LET d   == LowRead("user")
           hit == findByEmailIn(d, loc[p].arg.email)
       IN /\ mem' = [mem EXCEPT !["user"] = d]
          /\ loc' = IF hit = Null
                    THEN Done(loc, p, login_userNotFound)
                    ELSE IF ~verifyPassword(loc[p].arg.password,
                                            hit.rec.passwordHash)
                    THEN Done(loc, p, login_invalidPassword)
                    ELSE enterRefreshCreate(loc, p, hit.rec)
    /\ UNCHANGED <<fileExists, file, initialized, wInflight, wNext, runq, now,
                   nextTok, budget, overlapped, hist>>

\* part_012 line 140: without an expiresAt the entry lasts 24 hours
BlacklistDefaultHours == 24

\* line 140: `expiresAt || now + 24 * 60 * 60`; NoExpiresAt stands for the
\* null default of the parameter, falsy like 0
NoExpiresAt == 0

defaultExpiresAt(expiresAt, t) ==
    IF expiresAt = NoExpiresAt
    THEN t + BlacklistDefaultHours * 3600
    ELSE expiresAt

\* the object logout returns (authService.js lines 271 and 275,
\* emailService.js lines 593-596 and 601-604; the message is in Japanese in
\* the source)
LoggedOut == [success |-> TRUE, message |-> "logged out"]

\* a catch block that passes the error on as it is
logout_rethrow(error) == error

\* authService.js lines 272-276: the catch of logout
logout_catch(error) == Record(LoggedOut)

\* blacklistToken lines 226-232: jwt.decode(token)?.exp || null
decodedExp(token) ==
    IF "exp" \in DOMAIN token THEN token.exp ELSE NoExpiresAt

\* logout(token) is called: blacklistToken decodes exp and addToBlacklist
\* starts reading; without a token (Null) addToBlacklist throws at once
logout(p, token) ==
    /\ CanCall(p)
    /\ StartCall(p)
    /\ LET r == Request("logout", "blacklist", [token |-> token])
       IN loc' = IF token = Null
                 THEN Done([loc EXCEPT ![p] = r], p,
                           logout_catch(Failure("TOKEN_BLACKLIST_FAILED", 500)))
                 ELSE [loc EXCEPT ![p] = r]
    /\ UNCHANGED <<storeVars, runq, now, nextTok, hist>>

\* addToBlacklist lines 127-151: read, skip when the hash is present,
\* otherwise push the entry and write
logout_addToBlacklist(p) ==
    /\ AtRead(p, "blacklist", "logout", 1)
    /\ LET d  == LowRead("blacklist")
           t  == loc[p].arg.token
           d2 == [d EXCEPT !.keys = @ \cup {"tokenBlacklist"},
                           !.tokenBlacklist =
                               Append(@, BlacklistEntry(t,
                                   defaultExpiresAt(decodedExp(t), now)))]
       IN IF existingEntry(d, t) # <<>>
          THEN /\ mem' = [mem EXCEPT !["blacklist"] = d]
               /\ loc' = Done(loc, p, Record(LoggedOut))
               /\ hist' = [hist EXCEPT !.loggedOut = @ \cup {t}]
               /\ UNCHANGED <<wInflight, wNext>>
          ELSE /\ mem' = [mem EXCEPT !["blacklist"] = d2]
               /\ StenoWrite("blacklist", p, d2)
               /\ loc' = [loc EXCEPT ![p].pc = "written",
                                     ![p].ret = Record(LoggedOut)]
               /\ UNCHANGED hist
    /\ UNCHANGED <<fileExists, file, initialized, runq, now, nextTok, budget,
                   overlapped>>

\* the write of addToBlacklist has resolved: logout returns success
logout_return(p) ==
    /\ Resumed(p, "written")
    /\ loc[p].op = "logout"
    /\ loc' = Done(loc, p, loc[p].ret)
    /\ hist' = [hist EXCEPT !.loggedOut = @ \cup {loc[p].arg.token}]
    /\ UNCHANGED <<storeVars, now, nextTok, budget, overlapped>>

\* db.read() of the blacklist repository rejects during logout, in
\* _ensureInitialized or in _safeRead
logout_readFails(p) ==
    /\ runq = <<>>
    /\ loc[p].op = "logout"
    /\ loc[p].repo = "blacklist"
    /\ loc[p].pc \in {"init", "read"}
    /\ loc' = Done([loc EXCEPT ![p].arg =
                       [token |-> loc[p].arg.token,
                        failed |-> IF loc[p].pc = "init" THEN "DATABASE_ERROR"
                                   ELSE "DATABASE_READ_ERROR"]], p,
                   logout_catch(Failure("TOKEN_BLACKLIST_FAILED", 500)))
    /\ UNCHANGED <<storeVars, runq, now, nextTok, budget, overlapped, hist>>

\* db.write() of addToBlacklist rejects, the Writer being idle: the entry
\* is in db.data only and the file is left as it was
logout_writeFails(p) ==
    /\ AtRead(p, "blacklist", "logout", 1)
    /\ ~wInflight["blacklist"].busy
    /\ LET d  == LowRead("blacklist")
           t  == loc[p].arg.token
           d2 == [d EXCEPT !.keys = @ \cup {"tokenBlacklist"},
                           !.tokenBlacklist =
                               Append(@, BlacklistEntry(t,
                                   defaultExpiresAt(decodedExp(t), now)))]
       IN /\ existingEntry(d, t) = <<>>
          /\ mem' = [mem EXCEPT !["blacklist"] = d2]
    /\ loc' = Done([loc EXCEPT ![p].arg =
                       [token |-> loc[p].arg.token,
                        failed |-> "DATABASE_WRITE_ERROR"]], p,
                   logout_catch(Failure("TOKEN_BLACKLIST_FAILED", 500)))
    /\ UNCHANGED <<fileExists, file, initialized, wInflight, wNext, runq, now,
                   nextTok, budget, overlapped, hist>>

\* what the POST to the Keycloak logout endpoint can end as: a JSON body,
\* a 2xx answer without a body (response.json() throws), a status that is
\* not ok, a rejected fetch (emailService.js lines 383-402)
HttpOutcomes == {"json", "emptyBody", "notOk", "fetchRejected"}

\* emailService.js lines 598-605: the catch of KeycloakAuthService.logout
KeycloakAuthService_logout_catch(error) == Record(LoggedOut)

\* KeycloakAuthService.logout(token) is called, with or without a logout
\* endpoint configured
KeycloakAuthService_logout(p, token, logoutEndpoint) ==
    /\ CanCall(p)
    /\ StartCall(p)
    /\ LET r == [Idle EXCEPT !.op = "KeycloakAuthService.logout",
                             !.arg = [token |-> token, outcome |-> "none"]]
       IN loc' = IF logoutEndpoint
                 THEN [loc EXCEPT ![p] = [r EXCEPT !.pc = "http"]]
                 ELSE Done([loc EXCEPT ![p] = r], p, Record(LoggedOut))
    /\ UNCHANGED <<storeVars, runq, now, nextTok, hist>>

\* the request to the logout endpoint has ended
KeycloakAuthService_logout_response(p) ==
    /\ runq = <<>>
    /\ loc[p].op = "KeycloakAuthService.logout"
    /\ loc[p].pc = "http"
    /\ \E outcome \in HttpOutcomes :
          loc' = Done([loc EXCEPT ![p].arg.outcome = outcome], p,
                      IF outcome = "json"
                      THEN Record(LoggedOut)
                      ELSE KeycloakAuthService_logout_catch(
                               Failure(outcome, 500)))
    /\ UNCHANGED <<storeVars, runq, now, nextTok, budget, overlapped, hist>>

\* jwtUtils.isTokenBlacklisted(token) is called
isTokenBlacklisted(p, token) ==
    /\ CanCall(p)
    /\ StartCall(p)
    /\ loc' = [loc EXCEPT ![p] =
                 Request("isTokenBlacklisted", "blacklist",
                         [token |-> token,
                          afterLogout |->
                              \E u \in hist.loggedOut :
                                  stripBearer(u) = stripBearer(token)])]
    /\ UNCHANGED <<storeVars, runq, now, nextTok, hist>>

\* isBlacklisted lines 175-186
isTokenBlacklisted_read(p) ==
    /\ AtRead(p, "blacklist", "isTokenBlacklisted", 1)
    /\ LET d == LowRead("blacklist")
       IN /\ mem' = [mem EXCEPT !["blacklist"] = d]
          /\ loc' = Done(loc, p, Value(isBlacklistedIn(d, loc[p].arg.token, now)))
    /\ UNCHANGED <<fileExists, file, initialized, wInflight, wNext, runq, now,
                   nextTok, budget, overlapped, hist>>

\* a catch block that passes the error on as it is
getUserFromToken_rethrow(error) == error

\* the catch of getUserFromToken (lines 255-260): whatever was thrown, a
\* new error with code INVALID_TOKEN and status 401 is thrown
getUserFromToken_catch(error) == Failure("INVALID_TOKEN", 401)

\* getUserFromToken(token) is called: verifyToken, and on success
\* getUserById -> findById starts reading
getUserFromToken(p, token) ==
    /\ CanCall(p)
    /\ StartCall(p)
    /\ LET r == Request("getUserFromToken", "user",
                        [token |-> token,
                         afterLogout |-> token \in hist.loggedOut])
       IN loc' = IF verifyToken(token, now).kind = "record"
                 THEN [loc EXCEPT ![p] = r]
                 ELSE Done([loc EXCEPT ![p] = r], p,
                           getUserFromToken_catch(verifyToken(token, now)))
    /\ UNCHANGED <<storeVars, runq, now, nextTok, hist>>

\* findById, getUserById lines 224-232, and the catch of getUserFromToken
getUserFromToken_findById(p) ==
    /\ AtRead(p, "user", "getUserFromToken", 1)
    /\ LET d   == LowRead("user")
           hit == findByIdIn(d, loc[p].arg.token.sub)
       IN /\ mem' = [mem EXCEPT !["user"] = d]
          /\ loc' = Done(loc, p,
                         IF hit = Null
                         THEN getUserFromToken_catch(
                                  Failure("USER_NOT_FOUND", 404))
                         ELSE Record(toAuthUser(hit.rec)))
    /\ UNCHANGED <<fileExists, file, initialized, wInflight, wNext, runq, now,
                   nextTok, budget, overlapped, hist>>

\* ============================== resetPassword and refreshAccessToken
\* the request moves on to a method of repository r
Enter(l, p, r, phase) ==
    [l EXCEPT ![p].pc = EnterSafeRead(r), ![p].repo = r, ![p].phase = phase]

\* this.db.data.users[userIndex].passwordHash = newPasswordHash
updatePasswordIn(d, idx, hash) ==
    [d EXCEPT !.users[idx].passwordHash = hash]

\* refreshTokens.filter(rt => rt.userId !== parseInt(userId, 10))
deleteByUserIdIn(d, userId) ==
    LET Other(rt) == rt.userId # userId
    IN [d EXCEPT !.keys = @ \cup {"refreshTokens"},
                 !.refreshTokens = Filter(@, Other)]

\* refreshTokens.findIndex(rt => rt.token === token): <<index>> or <<>>
findRefreshIndex(d, token) ==
    LET Test(rt) == rt.token = token
        idx == SelectIdx(d.refreshTokens, Test, 1)
    IN IF idx = <<>> THEN <<>> ELSE <<idx[1]>>

\* the user a refresh token was issued to, per the tokens handed out
RefreshOwners(token) ==
    {r.user : r \in {s \in hist.tokens : s.refresh_token = token}}

\* resetPassword returns or throws; liveAtReturn notes whether
\* findByToken would still return the record of the token at that moment
resetPassword_ends(l, p, ret) ==
    Done([l EXCEPT ![p].arg.liveAtReturn =
                       findByTokenIn(file, l[p].arg.token, now) # Null],
         p, ret)

\* resetPassword({token, newPassword}) is called
resetPassword(p, token, newPassword) ==
    /\ CanCall(p)
    /\ StartCall(p)
    /\ loc' = [loc EXCEPT ![p] =
                 Request("resetPassword", "reset",
                         [token |-> token, newPassword |-> newPassword,
                          userId |-> 0,
                          afterSuccess |-> token \in hist.resetOk,
                          applied |-> FALSE, liveAtReturn |-> FALSE])]
    /\ UNCHANGED <<storeVars, runq, now, nextTok, hist>>

\* lines 430-436: findByToken, INVALID_RESET_TOKEN when it finds none
resetPassword_findByToken(p) ==
    /\ AtRead(p, "reset", "resetPassword", 1)
    /\ LET d   == LowRead("reset")
           hit == findByTokenIn(d, loc[p].arg.token, now)
           l   == Unalias(loc, "reset")
       IN /\ mem' = [mem EXCEPT !["reset"] = d]
          /\ loc' = IF NoResetTable(d)
                    THEN Done(l, p, Failure("TypeError", 500))
                    ELSE IF hit = Null
                    THEN Done(l, p, Failure("INVALID_RESET_TOKEN", 400))
                    ELSE Enter([l EXCEPT ![p].arg.userId = hit.rec.userId],
                               p, "user", 2)
    /\ UNCHANGED <<fileExists, file, initialized, wInflight, wNext, runq, now,
                   nextTok, budget, overlapped, hist>>

\* lines 439-448: findById, USER_NOT_FOUND; then the new password is hashed
\* and updatePassword starts reading
resetPassword_findById(p) ==
    /\ AtRead(p, "user", "resetPassword", 2)
    /\ LET d   == LowRead("user")
           hit == findByIdIn(d, loc[p].arg.userId)
       IN /\ mem' = [mem EXCEPT !["user"] = d]
          /\ loc' = IF hit = Null
                    THEN Done(loc, p, Failure("USER_NOT_FOUND", 404))
                    ELSE [loc EXCEPT ![p].phase = 3]
    /\ UNCHANGED <<fileExists, file, initialized, wInflight, wNext, runq, now,
                   nextTok, budget, overlapped, hist>>

\* updatePassword lines 282-295; its result is not looked at, so without
\* the user markTokenAsUsed follows at once
resetPassword_updatePassword(p) ==
    /\ AtRead(p, "user", "resetPassword", 3)
    /\ LET d   == LowRead("user")
           idx == findIndexById(d.users, loc[p].arg.userId)
           d2  == updatePasswordIn(d, idx[1],
                                   hashPassword(loc[p].arg.newPassword))
       IN IF idx = <<>>
          THEN /\ mem' = [mem EXCEPT !["user"] = d]
               /\ loc' = Enter(loc, p, "reset", 4)
               /\ UNCHANGED <<wInflight, wNext>>
          ELSE /\ mem' = [mem EXCEPT !["user"] = d2]
               /\ StenoWrite("user", p, d2)
               /\ loc' = [loc EXCEPT ![p].pc = "written"]
    /\ UNCHANGED <<fileExists, file, initialized, runq, now, nextTok, budget,
                   overlapped, hist>>

\* the write of updatePassword has resolved: markTokenAsUsed starts reading
resetPassword_passwordUpdated(p) ==
    /\ Resumed(p, "written")
    /\ loc[p].op = "resetPassword"
    /\ loc[p].phase = 3
    /\ loc' = Enter([loc EXCEPT ![p].arg.applied = TRUE], p, "reset", 4)
    /\ UNCHANGED <<storeVars, now, nextTok, budget, overlapped, hist>>

\* markTokenAsUsed lines 141-151 inside resetPassword; without the record
\* it returns false and logoutAllDevices follows at once
resetPassword_markTokenAsUsed(p) ==
    /\ AtRead(p, "reset", "resetPassword", 4)
    /\ LET d == LowRead("reset")
           m == markUsedIn(d, loc[p].arg.token)
           l == Unalias(loc, "reset")
       IN IF NoResetTable(d)
          THEN /\ mem' = [mem EXCEPT !["reset"] = d]
               /\ loc' = resetPassword_ends(l, p, Failure("TypeError", 500))
               /\ UNCHANGED <<wInflight, wNext>>
          ELSE IF ~m.found
          THEN /\ mem' = [mem EXCEPT !["reset"] = d]
               /\ loc' = Enter(l, p, "refresh", 5)
               /\ UNCHANGED <<wInflight, wNext>>
          ELSE /\ mem' = [mem EXCEPT !["reset"] = m.doc]
               /\ StenoWrite("reset", p, m.doc)
               /\ loc' = [l EXCEPT ![p].pc = "written"]
    /\ UNCHANGED <<fileExists, file, initialized, runq, now, nextTok, budget,
                   overlapped, hist>>

\* the write of markTokenAsUsed has resolved: logoutAllDevices ->
\* deleteByUserId starts reading
resetPassword_tokenMarked(p) ==
    /\ Resumed(p, "written")
    /\ loc[p].op = "resetPassword"
    /\ loc[p].phase = 4
    /\ loc' = Enter(loc, p, "refresh", 5)
    /\ UNCHANGED <<storeVars, now, nextTok, budget, overlapped, hist>>

\* db.read() of markTokenAsUsed rejects (unreadable or corrupt file):
\* _safeRead throws a plain Error and resetPassword passes it on, the new
\* password hash being stored already
resetPassword_markFails(p) ==
    /\ runq = <<>>
    /\ loc[p].op = "resetPassword"
    /\ loc[p].repo = "reset"
    /\ loc[p].phase = 4
    /\ loc[p].pc \in {"init", "read"}
    /\ loc' = resetPassword_ends(loc, p, Failure("Error", 500))
    /\ UNCHANGED <<storeVars, runq, now, nextTok, budget, overlapped, hist>>

\* deleteByUserId lines 258-265: read, keep the other users' tokens, write
resetPassword_deleteByUserId(p) ==
    /\ AtRead(p, "refresh", "resetPassword", 5)
    /\ LET d2 == deleteByUserIdIn(LowRead("refresh"), loc[p].arg.userId)
       IN /\ mem' = [mem EXCEPT !["refresh"] = d2]
          /\ StenoWrite("refresh", p, d2)
          /\ loc' = [loc EXCEPT ![p].pc = "written"]
    /\ UNCHANGED <<fileExists, file, initialized, runq, now, nextTok, budget,
                   overlapped, hist>>

\* the write of deleteByUserId has resolved; the confirmation mail is sent
\* (it never throws) and resetPassword returns success
resetPassword_return(p) ==
    /\ Resumed(p, "written")
    /\ loc[p].op = "resetPassword"
    /\ loc[p].phase = 5
    /\ loc' = resetPassword_ends(loc, p, Value(TRUE))
    /\ hist' = [hist EXCEPT
                  !.resetOk = @ \cup {loc[p].arg.token},
                  !.resetTwice = @ \/ loc[p].arg.token \in hist.resetOk,
                  !.resetDone = @ \cup {loc[p].arg.userId}]
    /\ UNCHANGED <<storeVars, now, nextTok, budget, overlapped>>

\* refreshAccessToken(refreshToken) is called
refreshAccessToken(p, token) ==
    /\ CanCall(p)
    /\ StartCall(p)
    /\ loc' = [loc EXCEPT ![p] =
                 Request("refreshAccessToken", "refresh",
                         [token |-> token, userId |-> 0,
                          afterReset |->
                              RefreshOwners(token) \cap hist.resetDone # {},
                          afterRefresh |-> token \in hist.refreshed,
                          tableAtCall |-> file.refreshTokens])]
    /\ UNCHANGED <<storeVars, runq, now, nextTok, hist>>

\* verifyRefreshToken -> findByToken lines 136-143: the token is looked up
\* (a refresh token lives 30 days, so none expires while the clock is
\* within MaxTime); then updateLastUsed starts reading
refreshAccessToken_findByToken(p) ==
    /\ AtRead(p, "refresh", "refreshAccessToken", 1)
    /\ LET d   == LowRead("refresh")
           idx == findRefreshIndex(d, loc[p].arg.token)
       IN /\ mem' = [mem EXCEPT !["refresh"] = d]
          /\ loc' = IF idx = <<>>
                    THEN Done(loc, p, Failure("INVALID_REFRESH_TOKEN", 401))
                    ELSE [loc EXCEPT ![p].phase = 2,
                                     ![p].arg.userId =
                                         d.refreshTokens[idx[1]].userId]
    /\ UNCHANGED <<fileExists, file, initialized, wInflight, wNext, runq, now,
                   nextTok, budget, overlapped, hist>>

\* updateLastUsed lines 200-211: read, stamp the record, write the table
\* read; without the record it returns null, which nobody looks at
refreshAccessToken_updateLastUsed(p) ==
    /\ AtRead(p, "refresh", "refreshAccessToken", 2)
    /\ LET d   == LowRead("refresh")
           idx == findRefreshIndex(d, loc[p].arg.token)
           d2  == [d EXCEPT !.refreshTokens[idx[1]].lastUsedAt = now]
       IN IF idx = <<>>
          THEN /\ mem' = [mem EXCEPT !["refresh"] = d]
               /\ loc' = Enter(loc, p, "user", 3)
               /\ UNCHANGED <<wInflight, wNext>>
          ELSE /\ mem' = [mem EXCEPT !["refresh"] = d2]
               /\ StenoWrite("refresh", p, d2)
               /\ loc' = [loc EXCEPT ![p].pc = "written"]
    /\ UNCHANGED <<fileExists, file, initialized, runq, now, nextTok, budget,
                   overlapped, hist>>

\* the write of updateLastUsed has resolved: getUserById starts reading
refreshAccessToken_lastUsedUpdated(p) ==
    /\ Resumed(p, "written")
    /\ loc[p].op = "refreshAccessToken"
    /\ loc' = Enter(loc, p, "user", 3)
    /\ UNCHANGED <<storeVars, now, nextTok, budget, overlapped, hist>>

\* getUserById, generateTokens, and the catch of refreshAccessToken
refreshAccessToken_findById(p) ==
    /\ AtRead(p, "user", "refreshAccessToken", 3)
    /\ LET d   == LowRead("user")
           hit == findByIdIn(d, loc[p].arg.userId)
       IN /\ mem' = [mem EXCEPT !["user"] = d]
          /\ loc' = Done(loc, p,
                         IF hit = Null
                         THEN Failure("INVALID_REFRESH_TOKEN", 401)
                         ELSE Record([user |-> hit.rec.id,
                                      access_token |-> AccessToken(hit.rec, now)]))
          /\ hist' = IF hit = Null THEN hist
                     ELSE [hist EXCEPT !.refreshed = @ \cup {loc[p].arg.token}]
    /\ UNCHANGED <<fileExists, file, initialized, wInflight, wNext, runq, now,
                   nextTok, budget, overlapped>>

\* ================================================ user service and API
\* UserSchema.parse: a zod object keeps the keys of its shape only
UserSchema_parse(u) == [id |-> u.id, email |-> u.email]

\* a list of records handed to the caller
Records(recs) == [kind |-> "list", recs |-> recs]

UserService_ensureInitialized(p) == EnsureInitialized(p, "userService")

UserService_initialized(p) == Initialized(p, "userService")

\* GET /users reaches the getUsers controller
getUsers(p) ==
    /\ CanCall(p)
    /\ StartCall(p)
    /\ loc' = [loc EXCEPT ![p] = Request("getUsers", "userService", NoVal)]
    /\ UNCHANGED <<storeVars, runq, now, nextTok, hist>>

\* getUsersFromDB -> findAll, then UserArraySchema.parse on the page and
\* res.status(200).json(response)
getUsers_findAll(p) ==
    /\ AtRead(p, "userService", "getUsers", 1)
    /\ LET d == LowRead("userService")
       IN /\ mem' = [mem EXCEPT !["userService"] = d]
          /\ loc' = Done(loc, p, Records(Map(d.users, UserSchema_parse)))
    /\ UNCHANGED <<fileExists, file, initialized, wInflight, wNext, runq, now,
                   nextTok, budget, overlapped, hist>>

\* GET /users/:userId reaches the getUserById controller
getUserById(p, userId) ==
    /\ CanCall(p)
    /\ StartCall(p)
    /\ loc' = [loc EXCEPT ![p] =
                 Request("getUserById", "userService", [userId |-> userId])]
    /\ UNCHANGED <<storeVars, runq, now, nextTok, hist>>

\* getUserByIdFromDB -> findById; NotFoundError without the user; otherwise
\* `userDetail = { ...user, micropostCount, recentMicroposts }` goes out as
\* the response body the way findById returned it
getUserById_findById(p) ==
    /\ AtRead(p, "userService", "getUserById", 1)
    /\ LET d   == LowRead("userService")
           hit == findByIdIn(d, loc[p].arg.userId)
       IN /\ mem' = [mem EXCEPT !["userService"] = d]
          /\ loc' = Done(loc, p,
                         IF hit = Null THEN Failure("NOT_FOUND", 404)
                         ELSE Record(hit.rec))
    /\ UNCHANGED <<fileExists, file, initialized, wInflight, wNext, runq, now,
                   nextTok, budget, overlapped, hist>>

\* =========================================================== token life
\* jwtUtils.verifyToken(token) is called and answers at once
jwtUtils_verifyToken(p, token) ==
    /\ CanCall(p)
    /\ StartCall(p)
    /\ loc' = Done([loc EXCEPT ![p] =
                       [Idle EXCEPT !.op = "verifyToken",
                                    !.arg = [token |-> token, at |-> now]]],
                   p, verifyToken(token, now))
    /\ UNCHANGED <<storeVars, runq, now, nextTok, hist>>

\* the clock advances by the lifetime of an access token
Wait ==
    /\ runq = <<>>
    /\ now < 2 * JwtExpiresIn
    /\ now' = now + JwtExpiresIn
    /\ UNCHANGED <<storeVars, runq, nextTok, loc, budget, overlapped, hist>>

\* ------------------------------------------------------- forgotPassword
\* authService.js line 400: config.passwordResetTokenExpiresIn || 3600, the
\* configuration having no such entry
PasswordResetTokenExpiresIn == 3600

\* the object forgotPassword returns (lines 391-394 and 414-417; the message
\* is in Japanese in the source)
ForgotPasswordSent ==
    [success |-> TRUE,
     message |-> "password reset mail sent (if such an account exists)"]

\* a forgotPassword that tells the caller the mail was not sent
forgotPassword_result_reportsFailure(emailSent) ==
    [success |-> emailSent,
     message |-> "password reset mail sent (if such an account exists)"]

\* lines 410-417: emailSent is only logged
forgotPassword_result(emailSent) == ForgotPasswordSent

\* emailService.js lines 87-112: _sendEmail returns true in development,
\* false in production, and never throws
EmailOutcomes == BOOLEAN

\* forgotPassword({email}) is called
forgotPassword(p, email) ==
    /\ CanCall(p)
    /\ StartCall(p)
    /\ TokenLeft
    /\ loc' = [loc EXCEPT ![p] =
                 Request("forgotPassword", "user", [email |-> email])]
    /\ UNCHANGED <<storeVars, runq, now, nextTok, hist>>

\* lines 388-401: findByEmail; without a user the result is returned at
\* once, otherwise createResetToken starts reading
forgotPassword_findByEmail(p) ==
    /\ AtRead(p, "user", "forgotPassword", 1)
    /\ LET d   == LowRead("user")
           hit == findByEmailIn(d, loc[p].arg.email)
       IN /\ mem' = [mem EXCEPT !["user"] = d]
          /\ IF hit = Null
             THEN /\ loc' = Done(loc, p, Record(ForgotPasswordSent))
                  /\ UNCHANGED hist
             ELSE /\ loc' = [loc EXCEPT
                       ![p].pc = EnterSafeRead("reset"),
                       ![p].repo = "reset",
                       ![p].phase = 1,
                       ![p].arg =
                          [email |-> loc[p].arg.email,
                           userId |-> hit.rec.id,
                           expiresIn |-> PasswordResetTokenExpiresIn,
                           filePresent |-> fileExists,
                           revAtCall |-> hist.revCalls[hit.rec.id] + 1,
                           prior |-> {i.token : i \in {j \in hist.issued :
                                                   j.userId = hit.rec.id}}]]
                  /\ hist' = [hist EXCEPT !.revCalls[hit.rec.id] = @ + 1]
    /\ UNCHANGED <<fileExists, file, initialized, wInflight, wNext, runq, now,
                   nextTok, budget, overlapped>>

\* lines 403-417: createResetToken has returned; the mail is sent and the
\* result returned whatever sendPasswordResetEmail answered
forgotPassword_return(p) ==
    /\ Resumed(p, "written")
    /\ loc[p].op = "forgotPassword"
    /\ \E emailSent \in EmailOutcomes :
          loc' = Done(loc, p, Record(forgotPassword_result(emailSent)))
    /\ hist' = [hist EXCEPT
         !.issued = @ \cup
            {[token |-> loc[p].ret.rec.token, userId |-> loc[p].arg.userId,
              expiresAt |-> loc[p].ret.rec.expiresAt,
              filePresent |-> loc[p].arg.filePresent,
              revAtCall |-> loc[p].arg.revAtCall]},
         !.superseded = @ \cup loc[p].arg.prior]
    /\ UNCHANGED <<storeVars, now, nextTok, budget, overlapped>>

\* ------------------------------------------------ authenticate middleware
\* res.status(status).json({success: false, error: {code, ...}}), next()
\* not being called
Reply(status, code) ==
    [kind |-> "response", status |-> status, code |-> code, next |-> FALSE]

\* next() is called with req.user set
NextCalled(user) == [kind |-> "next", user |-> user, next |-> TRUE]

\* what a failing db.read() of the blacklist repository ends as: _safeRead
\* and _ensureInitialized wrap it in an AppError, isBlacklisted rethrows it
DatabaseReadError(pc) ==
    IF pc = "init" THEN Failure("DATABASE_ERROR", 500)
    ELSE Failure("DATABASE_READ_ERROR", 500)

\* a blacklist check that lets the token through when the store fails
isTokenBlacklisted_catch_open(error) == FALSE

\* jwt.js lines 252-261: the catch of isTokenBlacklisted answers true
isTokenBlacklisted_catch(error) == TRUE

\* auth.js lines 45-58: the catch of authenticate
authenticate_catch(error) == Reply(error.status, error.code)

\* auth.js lines 25-43 once isTokenBlacklisted has answered: the 401 of a
\* blacklisted token, or getUserFromToken up to the read of findById
authenticate_checked(l, p, blacklisted) ==
    LET token == l[p].arg.token
    IN IF blacklisted
       THEN Done(l, p, Reply(401, "TOKEN_BLACKLISTED"))
       ELSE IF verifyToken(token, now).kind = "record"
       THEN [l EXCEPT ![p].pc = EnterSafeRead("user"), ![p].repo = "user",
                      ![p].phase = 2]
       ELSE Done(l, p, authenticate_catch(
                           getUserFromToken_catch(verifyToken(token, now))))

\* authenticate runs on a request whose Authorization header holds token
\* (Null: no header)
authenticate(p, token) ==
    /\ CanCall(p)
    /\ StartCall(p)
    /\ LET r == Request("authenticate", "blacklist",
                        [token |-> token, readFailed |-> FALSE,
                         afterLogout |-> token \in hist.loggedOut])
       IN loc' = IF token = Null
                 THEN Done([loc EXCEPT ![p] = r], p, Reply(401, "MISSING_TOKEN"))
                 ELSE [loc EXCEPT ![p] = r]
    /\ UNCHANGED <<storeVars, runq, now, nextTok, hist>>

\* isBlacklisted lines 175-186 within authenticate: the read succeeds
authenticate_isBlacklisted(p) ==
    /\ AtRead(p, "blacklist", "authenticate", 1)
    /\ LET d == LowRead("blacklist")
       IN /\ mem' = [mem EXCEPT !["blacklist"] = d]
          /\ loc' = authenticate_checked(loc, p,
                        isBlacklistedIn(d, loc[p].arg.token, now))
    /\ UNCHANGED <<fileExists, file, initialized, wInflight, wNext, runq, now,
                   nextTok, budget, overlapped, hist>>

\* db.read() of the blacklist repository rejects (unreadable or corrupt
\* file), in _ensureInitialized or in _safeRead
authenticate_readFails(p) ==
    /\ runq = <<>>
    /\ loc[p].op = "authenticate"
    /\ loc[p].repo = "blacklist"
    /\ loc[p].pc \in {"init", "read"}
    /\ loc' = authenticate_checked(
                  [loc EXCEPT ![p].arg.readFailed = TRUE], p,
                  isTokenBlacklisted_catch(DatabaseReadError(loc[p].pc)))
    /\ UNCHANGED <<storeVars, runq, now, nextTok, budget, overlapped, hist>>

\* findById and getUserById within authenticate, then next()
authenticate_findById(p) ==
    /\ AtRead(p, "user", "authenticate", 2)
    /\ LET d   == LowRead("user")
           hit == findByIdIn(d, loc[p].arg.token.sub)
       IN /\ mem' = [mem EXCEPT !["user"] = d]
          /\ loc' = Done(loc, p,
                         IF hit = Null
                         THEN authenticate_catch(getUserFromToken_catch(
                                  Failure("USER_NOT_FOUND", 404)))
                         ELSE NextCalled(toAuthUser(hit.rec)))
    /\ UNCHANGED <<fileExists, file, initialized, wInflight, wNext, runq, now,
                   nextTok, budget, overlapped, hist>>

\* ------------------------------------- TokenBlacklistRepository, directly
\* the entries of a document that carry the hash of token
EntriesOf(d, token) ==
    {i \in 1..Len(d.tokenBlacklist) :
        d.tokenBlacklist[i].tokenHash = generateTokenHash(token)}

\* addToBlacklist(token, reason, expiresAt) is called
addToBlacklist(p, token, expiresAt) ==
    /\ CanCall(p)
    /\ StartCall(p)
    /\ loc' = [loc EXCEPT ![p] =
                 Request("addToBlacklist", "blacklist",
                         [token |-> token, expiresAt |-> expiresAt,
                          calledAt |-> now])]
    /\ UNCHANGED <<storeVars, runq, now, nextTok, hist>>

\* lines 127-151: read, return the entry that has the hash, otherwise push a
\* new entry and write
addToBlacklist_read(p) ==
    /\ AtRead(p, "blacklist", "addToBlacklist", 1)
    /\ LET d     == LowRead("blacklist")
           t     == loc[p].arg.token
           entry == BlacklistEntry(t, defaultExpiresAt(loc[p].arg.expiresAt, now))
           d2    == [d EXCEPT !.keys = @ \cup {"tokenBlacklist"},
                              !.tokenBlacklist = Append(@, entry)]
           hit   == existingEntry(d, t)
       IN IF hit # <<>>
          THEN /\ mem' = [mem EXCEPT !["blacklist"] = d]
               /\ loc' = Done(loc, p, Record(hit[1]))
               /\ UNCHANGED <<wInflight, wNext>>
          ELSE /\ mem' = [mem EXCEPT !["blacklist"] = d2]
               /\ StenoWrite("blacklist", p, d2)
               /\ loc' = [loc EXCEPT ![p].pc = "written",
                                     ![p].ret = Record(entry)]
    /\ UNCHANGED <<fileExists, file, initialized, runq, now, nextTok, budget,
                   overlapped, hist>>

\* line 153: the write has resolved, the entry is returned
addToBlacklist_return(p) ==
    /\ Resumed(p, "written")
    /\ loc[p].op = "addToBlacklist"
    /\ loc' = Done(loc, p, loc[p].ret)
    /\ UNCHANGED <<storeVars, now, nextTok, budget, overlapped, hist>>

\* isBlacklisted(token) is called
isBlacklisted(p, token) ==
    /\ CanCall(p)
    /\ StartCall(p)
    /\ loc' = [loc EXCEPT ![p] =
                 Request("isBlacklisted", "blacklist", [token |-> token])]
    /\ UNCHANGED <<storeVars, runq, now, nextTok, hist>>

\* isBlacklisted lines 175-186
isBlacklisted_read(p) ==
    /\ AtRead(p, "blacklist", "isBlacklisted", 1)
    /\ LET d == LowRead("blacklist")
       IN /\ mem' = [mem EXCEPT !["blacklist"] = d]
          /\ loc' = Done(loc, p, Value(isBlacklistedIn(d, loc[p].arg.token, now)))
    /\ UNCHANGED <<fileExists, file, initialized, wInflight, wNext, runq, now,
                   nextTok, budget, overlapped, hist>>

\* ------------------------------------------------------- changePassword
\* the object changePassword returns (lines 372-375)
PasswordChanged == [success |-> TRUE]

\* changePassword(userId, {currentPassword, newPassword}) is called
changePassword(p, userId, currentPassword, newPassword) ==
    /\ CanCall(p)
    /\ StartCall(p)
    /\ loc' = [loc EXCEPT ![p] =
                 Request("changePassword", "user",
                         [userId |-> userId,
                          currentPassword |-> currentPassword,
                          newPassword |-> newPassword,
                          usersAtCall |-> file.users,
                          checked |-> FALSE])]
    /\ UNCHANGED <<storeVars, runq, now, nextTok, hist>>

\* lines 355-358: verifyPassword(currentPassword, user.passwordHash)
changePassword_verify(currentPassword, passwordHash) ==
    verifyPassword(currentPassword, passwordHash)

\* lines 346-365: findById, the comparison with the stored hash, the new
\* hash; then updatePassword starts reading
changePassword_findById(p) ==
    /\ AtRead(p, "user", "changePassword", 1)
    /\ LET d   == LowRead("user")
           hit == findByIdIn(d, loc[p].arg.userId)
           l   == [loc EXCEPT ![p].arg.checked = TRUE]
       IN /\ mem' = [mem EXCEPT !["user"] = d]
          /\ loc' = IF hit = Null
                    THEN Done(l, p, Failure("USER_NOT_FOUND", 404))
                    ELSE IF ~changePassword_verify(loc[p].arg.currentPassword,
                                                   hit.rec.passwordHash)
                    THEN Done(l, p, Failure("INVALID_CURRENT_PASSWORD", 400))
                    ELSE [l EXCEPT ![p].phase = 2]
    /\ UNCHANGED <<fileExists, file, initialized, wInflight, wNext, runq, now,
                   nextTok, budget, overlapped, hist>>

\* updatePassword lines 282-293: read, set the hash, write; without the
\* user it returns false and changePassword goes on to its end
changePassword_updatePassword(p) ==
    /\ AtRead(p, "user", "changePassword", 2)
    /\ LET d   == LowRead("user")
           idx == findIndexById(d.users, loc[p].arg.userId)
           d2  == updatePasswordIn(d, idx[1],
                                   hashPassword(loc[p].arg.newPassword))
       IN IF idx = <<>>
          THEN /\ mem' = [mem EXCEPT !["user"] = d]
               /\ loc' = Done(loc, p, Record(PasswordChanged))
               /\ hist' = [hist EXCEPT
                             !.changedTo = Append(@, loc[p].arg.newPassword)]
               /\ UNCHANGED <<wInflight, wNext>>
          ELSE /\ mem' = [mem EXCEPT !["user"] = d2]
               /\ StenoWrite("user", p, d2)
               /\ loc' = [loc EXCEPT ![p].pc = "written"]
               /\ UNCHANGED hist
    /\ UNCHANGED <<fileExists, file, initialized, runq, now, nextTok, budget,
                   overlapped>>

\* lines 367-375: the write of updatePassword has resolved, the mail is
\* sent (sendPasswordChangeConfirmationEmail never throws) and the result
\* returned
changePassword_return(p) ==
    /\ Resumed(p, "written")
    /\ loc[p].op = "changePassword"
    /\ loc' = Done(loc, p, Record(PasswordChanged))
    /\ hist' = [hist EXCEPT !.changedTo = Append(@, loc[p].arg.newPassword)]
    /\ UNCHANGED <<storeVars, now, nextTok, budget, overlapped>>

\* ------------------------------------------------------ hasRole, authorize
\* a hierarchy in which every role stands for itself only
roleHierarchy_flat(userRole) ==
    CASE userRole = "user" -> {"user"}
      [] userRole = "readonly-admin" -> {"readonly-admin"}
      [] userRole = "admin" -> {"admin"}
      [] OTHER -> {}

\* authService.js lines 88-93: the roles each role stands for; a name the
\* table does not have gives undefined, on which `?.includes` is falsy
roleHierarchy(userRole) ==
    CASE userRole = "user" -> {"user"}
      [] userRole = "readonly-admin" -> {"user", "readonly-admin"}
      [] userRole = "admin" -> {"user", "readonly-admin", "admin"}
      [] OTHER -> {}

\* authService.js lines 85-98
hasRole(user, requiredRole) ==
    IF user = Null \/ "roles" \notin DOMAIN user
    THEN FALSE
    ELSE \E i \in 1..Len(user.roles) :
            requiredRole \in roleHierarchy(user.roles[i])

\* authService.hasRole(user, requiredRole) is called
BaseAuthService_hasRole(p, user, requiredRole) ==
    /\ CanCall(p)
    /\ StartCall(p)
    /\ loc' = Done([loc EXCEPT ![p] =
                      [Idle EXCEPT !.op = "hasRole",
                                   !.arg = [user |-> user,
                                            requiredRole |-> requiredRole]]],
                   p, Value(hasRole(user, requiredRole)))
    /\ UNCHANGED <<storeVars, runq, now, nextTok, hist>>

\* auth.js lines 110-140: the middleware authorize(requiredRole) returns
\* runs on a request whose req.user is user
authorize(p, user, requiredRole) ==
    /\ CanCall(p)
    /\ StartCall(p)
    /\ loc' = Done([loc EXCEPT ![p] =
                      [Idle EXCEPT !.op = "authorize",
                                   !.arg = [user |-> user,
                                            requiredRole |-> requiredRole]]],
                   p,
                   IF user = Null
                   THEN Reply(401, "AUTHENTICATION_REQUIRED")
                   ELSE IF ~hasRole(user, requiredRole)
                   THEN Reply(403, "INSUFFICIENT_PERMISSIONS")
                   ELSE NextCalled(user))
    /\ UNCHANGED <<storeVars, runq, now, nextTok, hist>>

\* ------------------------------------------- KeycloakAuthService fallback
\* emailService.js lines 327-343: the constructor sets keycloakConfig and
\* httpClient; nothing assigns this.localAuthService
KeycloakAuthService_localAuthService == Null

\* the methods that fall back to the local implementation
FallbackMethods ==
    {"login", "register", "getUserById", "getUserByEmail", "getUserFromToken"}

\* lines 714-725: without a localAuthService _fallbackToLocal throws,
\* otherwise it returns what the local method returns
KeycloakAuthService_fallbackToLocal(method) ==
    IF KeycloakAuthService_localAuthService = Null
    THEN [kind |-> "error", code |-> "Error",
          message |-> "Fallback to local failed: dependencies not available",
          method |-> method]
    ELSE [kind |-> "delegated", method |-> method]

\* a method of KeycloakAuthService is called, with or without the Keycloak
\* endpoints configured: without them the try block throws before any
\* request (line 483) or fetch rejects at once, and the catch falls back
KeycloakAuthService_call(p, method, configured) ==
    /\ CanCall(p)
    /\ StartCall(p)
    /\ LET r == [Idle EXCEPT !.op = "KeycloakAuthService",
                             !.arg = [method |-> method,
                                      configured |-> configured,
                                      outcome |-> "none"]]
       IN loc' = IF configured
                 THEN [loc EXCEPT ![p] = [r EXCEPT !.pc = "http"]]
                 ELSE Done([loc EXCEPT ![p] = r], p,
                           KeycloakAuthService_fallbackToLocal(method))
    /\ UNCHANGED <<storeVars, runq, now, nextTok, hist>>

\* the request to the provider has ended: its answer is converted and
\* returned, or the catch falls back (lines 514-523, 534-537, 561-564,
\* 574-577)
KeycloakAuthService_response(p) ==
    /\ runq = <<>>
    /\ loc[p].op = "KeycloakAuthService"
    /\ loc[p].pc = "http"
    /\ \E outcome \in HttpOutcomes :
          loc' = Done([loc EXCEPT ![p].arg.outcome = outcome], p,
                      IF outcome = "json"
                      THEN [kind |-> "provider", method |-> loc[p].arg.method]
                      ELSE KeycloakAuthService_fallbackToLocal(loc[p].arg.method))
    /\ UNCHANGED <<storeVars, runq, now, nextTok, budget, overlapped, hist>>

\* ------------------------------------------------ auth router, controller
\* routes/auth.js lines 104-107: the methods the constructor binds
BoundMethods == {"register", "login", "logout", "getCurrentUser"}

\* routes/auth.js lines 47-73: the controller method each route is given
RouteHandler(route) ==
    CASE route = "PUT /auth/password" -> "changePassword"
      [] route = "POST /auth/forgot-password" -> "forgotPassword"
      [] route = "POST /auth/reset-password" -> "resetPassword"
      [] route = "POST /auth/refresh" -> "refreshToken"
      [] route = "GET /auth/health" -> "healthCheck"

DetachedRoutes ==
    {"PUT /auth/password", "POST /auth/forgot-password",
     "POST /auth/reset-password", "POST /auth/refresh", "GET /auth/health"}

\* `this` inside a handler the router calls as a plain function (the
\* module is strict code)
HandlerThis(method) ==
    IF method \in BoundMethods THEN "controller" ELSE "undefined"

\* errors.js lines 146-152 and the error handler of the application: an
\* error that is no AppError is answered 500 INTERNAL_ERROR
errorHandler(error) == Reply(500, "INTERNAL_ERROR")

\* The router calls the handler of a route (after authenticate called
\* next(), for PUT /auth/password) with a body that passes the request
\* schema or not.  With `this` undefined the first `this.authService`, or
\* `this._handleError` in the catch block after a schema error, throws a
\* TypeError; in the catch block of changePassword, forgotPassword,
\* resetPassword and refreshToken `this._handleError` throws again, the
\* promise rejects and Express hands the error to the error handler.
\* healthCheck answers from its own catch block (lines 371-381).
AuthRouter_handle(p, route, bodyValid) ==
    /\ CanCall(p)
    /\ StartCall(p)
    /\ HandlerThis(RouteHandler(route)) = "undefined"
    /\ loc' = Done([loc EXCEPT ![p] =
                      [Idle EXCEPT !.op = "AuthRouter",
                                   !.arg = [route |-> route,
                                            bodyValid |-> bodyValid]]],
                   p,
                   IF RouteHandler(route) = "healthCheck"
                   THEN Reply(500, "HEALTH_CHECK_FAILED")
                   ELSE errorHandler(Failure("TypeError", 500)))
    /\ UNCHANGED <<storeVars, runq, now, nextTok, hist>>

\* ------------------------------------- RefreshTokenRepository, directly
\* deleteByUserId(userId) is called
RefreshTokenRepository_deleteByUserId(p, userId) ==
    /\ CanCall(p)
    /\ StartCall(p)
    /\ loc' = [loc EXCEPT ![p] =
                 Request("deleteByUserId", "refresh", [userId |-> userId])]
    /\ UNCHANGED <<storeVars, runq, now, nextTok, hist>>

\* deleteByUserId lines 258-265: read, keep the other users' tokens, write
RefreshTokenRepository_deleteByUserId_read(p) ==
    /\ AtRead(p, "refresh", "deleteByUserId", 1)
    /\ LET d  == LowRead("refresh")
           d2 == deleteByUserIdIn(d, loc[p].arg.userId)
           OfUser(rt) == rt.userId = loc[p].arg.userId
       IN /\ mem' = [mem EXCEPT !["refresh"] = d2]
          /\ StenoWrite("refresh", p, d2)
          /\ loc' = [loc EXCEPT ![p].pc = "written",
                                ![p].ret = Value(Len(Filter(d.refreshTokens,
                                                            OfUser)))]
    /\ UNCHANGED <<fileExists, file, initialized, runq, now, nextTok, budget,
                   overlapped, hist>>

\* line 267: the write has resolved, the number of removed tokens is
\* returned
RefreshTokenRepository_deleteByUserId_return(p) ==
    /\ Resumed(p, "written")
    /\ loc[p].op = "deleteByUserId"
    /\ loc' = Done(loc, p, loc[p].ret)
    /\ hist' = [hist EXCEPT !.revoked = @ \cup {loc[p].arg.userId}]
    /\ UNCHANGED <<storeVars, now, nextTok, budget, overlapped>>

\* updateLastUsed(token) is called
RefreshTokenRepository_updateLastUsed(p, token) ==
    /\ CanCall(p)
    /\ StartCall(p)
    /\ loc' = [loc EXCEPT ![p] =
                 Request("updateLastUsed", "refresh", [token |-> token])]
    /\ UNCHANGED <<storeVars, runq, now, nextTok, hist>>

\* updateLastUsed lines 200-213: read, findIndex, null without the record,
\* otherwise stamp it and write the table that was read
RefreshTokenRepository_updateLastUsed_read(p) ==
    /\ AtRead(p, "refresh", "updateLastUsed", 1)
    /\ LET d   == LowRead("refresh")
           idx == findRefreshIndex(d, loc[p].arg.token)
           d2  == [d EXCEPT !.refreshTokens[idx[1]].lastUsedAt = now]
       IN IF idx = <<>>
          THEN /\ mem' = [mem EXCEPT !["refresh"] = d]
               /\ loc' = Done(loc, p, Null)
               /\ UNCHANGED <<wInflight, wNext>>
          ELSE /\ mem' = [mem EXCEPT !["refresh"] = d2]
               /\ StenoWrite("refresh", p, d2)
               /\ loc' = [loc EXCEPT ![p].pc = "written",
                                     ![p].ret =
                                         Record(d2.refreshTokens[idx[1]])]
    /\ UNCHANGED <<fileExists, file, initialized, runq, now, nextTok, budget,
                   overlapped, hist>>

\* the write of updateLastUsed has resolved, the record is returned
RefreshTokenRepository_updateLastUsed_return(p) ==
    /\ Resumed(p, "written")
    /\ loc[p].op = "updateLastUsed"
    /\ loc' = Done(loc, p, loc[p].ret)
    /\ UNCHANGED <<storeVars, now, nextTok, budget, overlapped, hist>>

\* findByToken(token) of the refresh-token repository is called
RefreshTokenRepository_findByToken(p, token) ==
    /\ CanCall(p)
    /\ StartCall(p)
    /\ loc' = [loc EXCEPT ![p] =
                 Request("RefreshTokenRepository_findByToken", "refresh",
                         [token |-> token,
                          afterRevoke |->
                              RefreshOwners(token) \cap hist.revoked # {}])]
    /\ UNCHANGED <<storeVars, runq, now, nextTok, hist>>

\* findByToken lines 136-154: the record with the token, or null (a refresh
\* token lives 30 days, so none expires while the clock is within MaxTime)
RefreshTokenRepository_findByToken_read(p) ==
    /\ AtRead(p, "refresh", "RefreshTokenRepository_findByToken", 1)
    /\ LET d   == LowRead("refresh")
           idx == findRefreshIndex(d, loc[p].arg.token)
       IN /\ mem' = [mem EXCEPT !["refresh"] = d]
          /\ loc' = Done(loc, p, IF idx = <<>> THEN Null
                                 ELSE Record(d.refreshTokens[idx[1]]))
    /\ UNCHANGED <<fileExists, file, initialized, wInflight, wNext, runq, now,
                   nextTok, budget, overlapped, hist>>

\* ------------------------------------------- blacklistToken, directly
\* jwtUtils.blacklistToken(token) is called: exp is decoded from the token
\* without its 'Bearer ' prefix (lines 231-232) and addToBlacklist is given
\* the token as it came (line 238)
blacklistToken(p, token) ==
    /\ CanCall(p)
    /\ StartCall(p)
    /\ loc' = [loc EXCEPT ![p] =
                 Request("blacklistToken", "blacklist",
                         [token |-> token,
                          expiresAt |-> decodedExp(stripBearer(token))])]
    /\ UNCHANGED <<storeVars, runq, now, nextTok, hist>>

\* addToBlacklist lines 127-151 within blacklistToken
blacklistToken_addToBlacklist(p) ==
    /\ AtRead(p, "blacklist", "blacklistToken", 1)
    /\ LET d     == LowRead("blacklist")
           t     == loc[p].arg.token
           entry == BlacklistEntry(t, defaultExpiresAt(loc[p].arg.expiresAt, now))
           d2    == [d EXCEPT !.keys = @ \cup {"tokenBlacklist"},
                              !.tokenBlacklist = Append(@, entry)]
       IN IF existingEntry(d, t) # <<>>
          THEN /\ mem' = [mem EXCEPT !["blacklist"] = d]
               /\ loc' = Done(loc, p, Null)
               /\ hist' = [hist EXCEPT !.loggedOut = @ \cup {t}]
               /\ UNCHANGED <<wInflight, wNext>>
          ELSE /\ mem' = [mem EXCEPT !["blacklist"] = d2]
               /\ StenoWrite("blacklist", p, d2)
               /\ loc' = [loc EXCEPT ![p].pc = "written"]
               /\ UNCHANGED hist
    /\ UNCHANGED <<fileExists, file, initialized, runq, now, nextTok, budget,
                   overlapped>>

\* the write of addToBlacklist has resolved: blacklistToken returns
blacklistToken_return(p) ==
    /\ Resumed(p, "written")
    /\ loc[p].op = "blacklistToken"
    /\ loc' = Done(loc, p, Null)
    /\ hist' = [hist EXCEPT !.loggedOut = @ \cup {loc[p].arg.token}]
    /\ UNCHANGED <<storeVars, now, nextTok, budget, overlapped>>

\* ------------------------------------------------------------ SpecReset
\* The reset repository alone, driven by concurrent callers, from a
\* missing database file or from the file db/seed.js writes.
SeedDoc ==
    Doc({"users", "passwordResetTokens"},
        <<SeedUser(1, "alice@example.com", hashPassword("password123"))>>, <<>>, <<>>, <<>>)

\* the file UserRepository._ensureInitialized writes when none exists
UsersOnlyDoc == Doc({"users"}, <<>>, <<>>, <<>>, <<>>)

\* nothing has been called yet
NoHistory ==
    [issued |-> {}, revCalls |-> [u \in UserIds |-> 0], superseded |-> {},
     handedOut |-> <<>>, tokens |-> {}, loggedOut |-> {}, resetOk |-> {},
     resetTwice |-> FALSE, resetDone |-> {}, refreshed |-> {},
     changedTo |-> <<>>, revoked |-> {}]

InitCommon ==
    /\ mem = [r \in Repos |-> DefaultData(r)]
    /\ initialized = [r \in Repos |-> FALSE]
    /\ wInflight = [r \in Repos |-> NoWrite]
    /\ wNext = [r \in Repos |-> NoWrite]
    /\ runq = <<>>
    /\ now = 0
    /\ nextTok = 1
    /\ loc = [p \in Procs |-> Idle]
    /\ overlapped = FALSE

InitReset ==
    /\ InitCommon
    /\ hist = NoHistory
    /\ budget = MaxResetCalls
    /\ \/ fileExists = FALSE /\ file = EmptyDoc
       \/ fileExists = TRUE /\ file \in {SeedDoc, UsersOnlyDoc}

NextReset ==
    \/ \E p \in Procs :
         \/ PasswordResetRepository_init(p)
         \/ PasswordResetRepository_initialized(p)
         \/ \E u \in UserIds, ttl \in ResetTtls : createResetToken(p, u, ttl)
         \/ createResetToken_read(p)
         \/ createResetToken_invalidate(p)
         \/ createResetToken_push(p)
         \/ createResetToken_return(p)
         \/ \E t \in IssuedTokens \cup {0} : findByToken(p, t)
         \/ findByToken_read(p)
         \/ \E t \in IssuedTokens : markTokenAsUsed(p, t)
         \/ markTokenAsUsed_read(p)
         \/ \E u \in UserIds : invalidateUserTokens(p, u)
         \/ invalidateUserTokens_read(p)
         \/ cleanupExpiredTokens(p)
         \/ cleanupExpiredTokens_read(p)
         \/ resetWrite_return(p)
    \/ WriteLands("reset")
    \/ Tick

SpecReset == InitReset /\ [][NextReset]_vars


\* ------------------------------------------------------------ SpecUsers
\* Registration and user deletion by concurrent requests.
MaxUserCalls == 3
DeleteIds == {1, 2}

InitUsers ==
    /\ InitCommon
    /\ hist = NoHistory
    /\ budget = MaxUserCalls
    /\ \/ fileExists = FALSE /\ file = EmptyDoc
       \/ fileExists = TRUE /\ file \in {SeedDoc, UsersOnlyDoc}

NextUsers ==
    \/ \E p \in Procs :
         \/ UserRepository_ensureInitialized(p)
         \/ UserRepository_initialized(p)
         \/ RefreshTokenRepository_ensureInitialized(p)
         \/ RefreshTokenRepository_initialized(p)
         \/ \E e \in Emails : register(p, e)
         \/ register_findByEmail(p)
         \/ register_create(p)
         \/ register_created(p)
         \/ RefreshTokenRepository_create(p)
         \/ RefreshTokenRepository_created(p)
         \/ \E id \in DeleteIds : UserRepository_delete(p, id)
         \/ UserRepository_delete_read(p)
         \/ UserRepository_delete_return(p)
    \/ \E r \in {"user", "refresh"} : WriteLands(r)

SpecUsers == InitUsers /\ [][NextUsers]_vars


\* ------------------------------------------------------------- SpecAuth
\* Sessions of the seeded user: login, logout, blacklist checks and token
\* resolution by concurrent requests.
MaxAuthCalls == 4
Passwords == {"password123", "wrong"}

InitAuth ==
    /\ InitCommon
    /\ hist = NoHistory
    /\ budget = MaxAuthCalls
    /\ fileExists = TRUE
    /\ file = SeedDoc

NextAuth ==
    \/ \E p \in Procs :
         \/ UserRepository_ensureInitialized(p)
         \/ UserRepository_initialized(p)
         \/ RefreshTokenRepository_ensureInitialized(p)
         \/ RefreshTokenRepository_initialized(p)
         \/ TokenBlacklistRepository_ensureInitialized(p)
         \/ TokenBlacklistRepository_initialized(p)
         \/ \E pw \in Passwords : login(p, "alice@example.com", pw)
         \/ login_findByEmail(p)
         \/ RefreshTokenRepository_create(p)
         \/ RefreshTokenRepository_created(p)
         \/ \E t \in AccessTokens : logout(p, t)
         \/ logout_addToBlacklist(p)
         \/ logout_return(p)
         \/ \E t \in AccessTokens : isTokenBlacklisted(p, t)
         \/ isTokenBlacklisted_read(p)
         \/ \E t \in AccessTokens : getUserFromToken(p, t)
         \/ getUserFromToken_findById(p)
    \/ \E r \in {"user", "refresh", "blacklist"} : WriteLands(r)
    \/ Tick

SpecAuth == InitAuth /\ [][NextAuth]_vars


\* ------------------------------------------------------------- SpecFlow
\* Password reset and token refresh by concurrent requests.  The server
\* starts on a database file left by earlier runs: createResetToken(1) on
\* a missing file, then the registration of two users.
MaxFlowCalls == 3
FlowResetToken == 1
FlowRefreshTokens == {2, 3}

FlowDoc ==
    Doc({"passwordResetTokens", "users", "refreshTokens"},
        <<SeedUser(1, "alice@example.com", hashPassword("password123")),
          SeedUser(2, "bob@example.com", hashPassword("password123"))>>,
        <<RefreshRec(2, 1, 0), RefreshRec(3, 2, 0)>>,
        <<>>,
        <<ResetRec(1, FlowResetToken, MaxTime)>>)

InitFlow ==
    /\ InitCommon
    /\ hist = [NoHistory EXCEPT
                 !.tokens = {[user |-> 1, refresh_token |-> 2,
                              access_token |-> AccessToken(FlowDoc.users[1], 0)],
                             [user |-> 2, refresh_token |-> 3,
                              access_token |-> AccessToken(FlowDoc.users[2], 0)]}]
    /\ budget = MaxFlowCalls
    /\ fileExists = TRUE
    /\ file = FlowDoc

NextFlow ==
    \/ \E p \in Procs :
         \/ PasswordResetRepository_init(p)
         \/ UserRepository_ensureInitialized(p)
         \/ UserRepository_initialized(p)
         \/ RefreshTokenRepository_ensureInitialized(p)
         \/ \E t \in {FlowResetToken, 0} : resetPassword(p, t, "new")
         \/ resetPassword_findByToken(p)
         \/ resetPassword_findById(p)
         \/ resetPassword_updatePassword(p)
         \/ resetPassword_passwordUpdated(p)
         \/ resetPassword_markTokenAsUsed(p)
         \/ resetPassword_tokenMarked(p)
         \/ resetPassword_markFails(p)
         \/ resetPassword_deleteByUserId(p)
         \/ resetPassword_return(p)
         \/ \E t \in FlowRefreshTokens : refreshAccessToken(p, t)
         \/ refreshAccessToken_findByToken(p)
         \/ refreshAccessToken_updateLastUsed(p)
         \/ refreshAccessToken_lastUsedUpdated(p)
         \/ refreshAccessToken_findById(p)
    \/ \E r \in {"user", "refresh", "reset"} : WriteLands(r)
    \/ Tick

SpecFlow == InitFlow /\ [][NextFlow]_vars


\* -------------------------------------------------------------- SpecApi
\* The user endpoints next to registration and login, on the seeded file.
MaxApiCalls == 3

InitApi ==
    /\ InitCommon
    /\ hist = NoHistory
    /\ budget = MaxApiCalls
    /\ fileExists = TRUE
    /\ file = SeedDoc

NextApi ==
    \/ \E p \in Procs :
         \/ UserRepository_ensureInitialized(p)
         \/ UserRepository_initialized(p)
         \/ RefreshTokenRepository_ensureInitialized(p)
         \/ RefreshTokenRepository_initialized(p)
         \/ UserService_ensureInitialized(p)
         \/ UserService_initialized(p)
         \/ register(p, "bob@example.com")
         \/ register_findByEmail(p)
         \/ register_create(p)
         \/ register_created(p)
         \/ login(p, "alice@example.com", "password123")
         \/ login_findByEmail(p)
         \/ RefreshTokenRepository_create(p)
         \/ RefreshTokenRepository_created(p)
         \/ \E t \in AccessTokens : getUserFromToken(p, t)
         \/ getUserFromToken_findById(p)
         \/ getUsers(p)
         \/ getUsers_findAll(p)
         \/ \E id \in UserIds : getUserById(p, id)
         \/ getUserById_findById(p)
    \/ \E r \in {"user", "refresh", "userService"} : WriteLands(r)

SpecApi == InitApi /\ [][NextApi]_vars

\* ------------------------------------------------------------ SpecToken
\* Access tokens over their lifetime: login, verification and resolution
\* of genuine, forged and malformed tokens, deletion of the user, and a
\* clock that passes the expiry of the tokens.
MaxTokenCalls == 4
PresentedTokens == AccessTokens \cup {ForgedToken, MalformedToken}

InitToken ==
    /\ InitCommon
    /\ hist = NoHistory
    /\ budget = MaxTokenCalls
    /\ fileExists = TRUE
    /\ file = SeedDoc

NextToken ==
    \/ \E p \in Procs :
         \/ UserRepository_ensureInitialized(p)
         \/ UserRepository_initialized(p)
         \/ RefreshTokenRepository_ensureInitialized(p)
         \/ RefreshTokenRepository_initialized(p)
         \/ login(p, "alice@example.com", "password123")
         \/ login_findByEmail(p)
         \/ RefreshTokenRepository_create(p)
         \/ RefreshTokenRepository_created(p)
         \/ \E t \in PresentedTokens : jwtUtils_verifyToken(p, t)
         \/ \E t \in PresentedTokens : getUserFromToken(p, t)
         \/ getUserFromToken_findById(p)
         \/ UserRepository_delete(p, 1)
         \/ UserRepository_delete_read(p)
         \/ UserRepository_delete_return(p)
    \/ \E r \in {"user", "refresh"} : WriteLands(r)
    \/ Wait

SpecToken == InitToken /\ [][NextToken]_vars

\* ---------------------------------------------------------- SpecRefresh
\* Sessions kept alive with the refresh token, next to the user listing.
MaxRefreshCalls == 4
RefreshTokensHeld == {r.refresh_token : r \in hist.tokens}

InitRefresh ==
    /\ InitCommon
    /\ hist = NoHistory
    /\ budget = MaxRefreshCalls
    /\ fileExists = TRUE
    /\ file = SeedDoc

NextRefresh ==
    \/ \E p \in Procs :
         \/ UserRepository_ensureInitialized(p)
         \/ UserRepository_initialized(p)
         \/ RefreshTokenRepository_ensureInitialized(p)
         \/ RefreshTokenRepository_initialized(p)
         \/ UserService_ensureInitialized(p)
         \/ UserService_initialized(p)
         \/ login(p, "alice@example.com", "password123")
         \/ login_findByEmail(p)
         \/ RefreshTokenRepository_create(p)
         \/ RefreshTokenRepository_created(p)
         \/ \E r \in RefreshTokensHeld : refreshAccessToken(p, r)
         \/ refreshAccessToken_findByToken(p)
         \/ refreshAccessToken_updateLastUsed(p)
         \/ refreshAccessToken_lastUsedUpdated(p)
         \/ refreshAccessToken_findById(p)
         \/ getUsers(p)
         \/ getUsers_findAll(p)
    \/ \E r \in {"user", "refresh", "userService"} : WriteLands(r)
    \/ Wait

SpecRefresh == InitRefresh /\ [][NextRefresh]_vars

\* ------------------------------------------------------------ SpecLogin
\* Login attempts with known and unknown emails, right and wrong passwords.
MaxLoginCalls == 3
LoginEmails == {"alice@example.com", "nobody@example.com"}

InitLogin ==
    /\ InitCommon
    /\ hist = NoHistory
    /\ budget = MaxLoginCalls
    /\ fileExists = TRUE
    /\ file = SeedDoc

NextLogin ==
    \/ \E p \in Procs :
         \/ UserRepository_ensureInitialized(p)
         \/ UserRepository_initialized(p)
         \/ RefreshTokenRepository_ensureInitialized(p)
         \/ RefreshTokenRepository_initialized(p)
         \/ \E e \in LoginEmails, pw \in Passwords : login(p, e, pw)
         \/ login_findByEmail(p)
         \/ RefreshTokenRepository_create(p)
         \/ RefreshTokenRepository_created(p)
    \/ \E r \in {"user", "refresh"} : WriteLands(r)
    \/ Tick

SpecLogin == InitLogin /\ [][NextLogin]_vars

\* ----------------------------------------------------------- SpecForgot
\* Password reset requests next to the user listing, on the seeded file
\* and on the file a first register leaves on a fresh installation.  With
\* a file present createResetToken stores no record (its write serialises
\* the document of the nested read), so invalidateUserTokens finds nothing
\* to mark and createResetToken_push has no write to resume from.
MaxForgotCalls == 3
ForgotEmails == {"alice@example.com", "nobody@example.com"}

RegisteredDoc ==
    Doc({"users", "refreshTokens"},
        <<SeedUser(1, "alice@example.com", hashPassword("password123"))>>,
        <<RefreshRec(0, 1, 0)>>, <<>>, <<>>)

InitForgot ==
    /\ InitCommon
    /\ hist = NoHistory
    /\ budget = MaxForgotCalls
    /\ fileExists = TRUE
    /\ file \in {SeedDoc, RegisteredDoc}

NextForgot ==
    \/ \E p \in Procs :
         \/ UserRepository_ensureInitialized(p)
         \/ UserRepository_initialized(p)
         \/ PasswordResetRepository_init(p)
         \/ PasswordResetRepository_initialized(p)
         \/ UserService_ensureInitialized(p)
         \/ UserService_initialized(p)
         \/ \E e \in ForgotEmails : forgotPassword(p, e)
         \/ forgotPassword_findByEmail(p)
         \/ createResetToken_read(p)
         \/ createResetToken_invalidate(p)
         \/ forgotPassword_return(p)
         \/ getUsers(p)
         \/ getUsers_findAll(p)
    \/ \E r \in {"user", "reset", "userService"} : WriteLands(r)

SpecForgot == InitForgot /\ [][NextForgot]_vars

\* ------------------------------------------------------------ SpecGuard
\* Requests passing the authenticate middleware, the blacklist store
\* failing at times, next to logins and logouts.
MaxGuardCalls == 3

InitGuard ==
    /\ InitCommon
    /\ hist = NoHistory
    /\ budget = MaxGuardCalls
    /\ fileExists = TRUE
    /\ file = SeedDoc

NextGuard ==
    \/ \E p \in Procs :
         \/ UserRepository_ensureInitialized(p)
         \/ UserRepository_initialized(p)
         \/ RefreshTokenRepository_ensureInitialized(p)
         \/ RefreshTokenRepository_initialized(p)
         \/ TokenBlacklistRepository_ensureInitialized(p)
         \/ TokenBlacklistRepository_initialized(p)
         \/ login(p, "alice@example.com", "password123")
         \/ login_findByEmail(p)
         \/ RefreshTokenRepository_create(p)
         \/ RefreshTokenRepository_created(p)
         \/ \E t \in AccessTokens : logout(p, t)
         \/ logout_addToBlacklist(p)
         \/ logout_return(p)
         \/ \E t \in PresentedTokens \cup {Null} : authenticate(p, t)
         \/ authenticate_isBlacklisted(p)
         \/ authenticate_readFails(p)
         \/ authenticate_findById(p)
    \/ \E r \in {"user", "refresh", "blacklist"} : WriteLands(r)

SpecGuard == InitGuard /\ [][NextGuard]_vars

\* -------------------------------------------------------- SpecBlacklist
\* The blacklist repository alone: tokens added and looked up by concurrent
\* callers while time passes.
MaxBlacklistCalls == 4
BlacklistTokens ==
    {AccessToken(SeedUser(1, "alice@example.com", hashPassword("password123")), 0),
     MalformedToken}
ExpiresAtArgs == {NoExpiresAt, JwtExpiresIn}

InitBlacklist ==
    /\ InitCommon
    /\ hist = NoHistory
    /\ budget = MaxBlacklistCalls
    /\ fileExists = TRUE
    /\ file = SeedDoc

NextBlacklist ==
    \/ \E p \in Procs :
         \/ TokenBlacklistRepository_ensureInitialized(p)
         \/ TokenBlacklistRepository_initialized(p)
         \/ \E t \in BlacklistTokens, e \in ExpiresAtArgs : addToBlacklist(p, t, e)
         \/ addToBlacklist_read(p)
         \/ addToBlacklist_return(p)
         \/ \E t \in BlacklistTokens : isBlacklisted(p, t)
         \/ isBlacklisted_read(p)
    \/ WriteLands("blacklist")
    \/ Wait

SpecBlacklist == InitBlacklist /\ [][NextBlacklist]_vars

\* ----------------------------------------------------------- SpecLogout
\* Logouts through both auth services, with every kind of token and with
\* the store and the identity provider failing at times.
MaxLogoutCalls == 3
LogoutTokens == PresentedTokens \cup {Null}

InitLogout ==
    /\ InitCommon
    /\ hist = NoHistory
    /\ budget = MaxLogoutCalls
    /\ fileExists = TRUE
    /\ file = SeedDoc

NextLogout ==
    \/ \E p \in Procs :
         \/ UserRepository_ensureInitialized(p)
         \/ UserRepository_initialized(p)
         \/ RefreshTokenRepository_ensureInitialized(p)
         \/ RefreshTokenRepository_initialized(p)
         \/ TokenBlacklistRepository_ensureInitialized(p)
         \/ TokenBlacklistRepository_initialized(p)
         \/ login(p, "alice@example.com", "password123")
         \/ login_findByEmail(p)
         \/ RefreshTokenRepository_create(p)
         \/ RefreshTokenRepository_created(p)
         \/ \E t \in LogoutTokens : logout(p, t)
         \/ logout_addToBlacklist(p)
         \/ logout_return(p)
         \/ logout_readFails(p)
         \/ logout_writeFails(p)
         \/ \E t \in LogoutTokens, e \in BOOLEAN :
               KeycloakAuthService_logout(p, t, e)
         \/ KeycloakAuthService_logout_response(p)
    \/ \E r \in {"user", "refresh", "blacklist"} : WriteLands(r)

SpecLogout == InitLogout /\ [][NextLogout]_vars

\* ----------------------------------------------------------- SpecChange
\* Password changes of the seeded user next to logins.
MaxChangeCalls == 3
ChangePasswords == {"password123", "newPassword1"}

InitChange ==
    /\ InitCommon
    /\ hist = NoHistory
    /\ budget = MaxChangeCalls
    /\ fileExists = TRUE
    /\ file = SeedDoc

NextChange ==
    \/ \E p \in Procs :
         \/ UserRepository_ensureInitialized(p)
         \/ UserRepository_initialized(p)
         \/ RefreshTokenRepository_ensureInitialized(p)
         \/ RefreshTokenRepository_initialized(p)
         \/ \E pw \in ChangePasswords : login(p, "alice@example.com", pw)
         \/ login_findByEmail(p)
         \/ RefreshTokenRepository_create(p)
         \/ RefreshTokenRepository_created(p)
         \/ \E u \in UserIds, cur \in ChangePasswords, new \in ChangePasswords :
               changePassword(p, u, cur, new)
         \/ changePassword_findById(p)
         \/ changePassword_updatePassword(p)
         \/ changePassword_return(p)
    \/ \E r \in {"user", "refresh"} : WriteLands(r)

SpecChange == InitChange /\ [][NextChange]_vars

\* ------------------------------------------------------------ SpecRoles
\* Role checks on every kind of user: missing, without roles, with up to
\* MaxRoles roles, a role name outside the hierarchy among them.
MaxRoleCalls == 2
MaxRoles == 2
RequiredRoles == {"user", "readonly-admin", "admin"}
RoleNames == RequiredRoles \cup {"guest"}
RoleLists == UNION {[1..n -> RoleNames] : n \in 0..MaxRoles}
RoleUsers ==
    {Null, [id |-> 1]} \cup {[id |-> 1, roles |-> rs] : rs \in RoleLists}

InitRoles ==
    /\ InitCommon
    /\ hist = NoHistory
    /\ budget = MaxRoleCalls
    /\ fileExists = TRUE
    /\ file = SeedDoc

NextRoles ==
    \E p \in Procs, user \in RoleUsers, r \in RequiredRoles :
        \/ BaseAuthService_hasRole(p, user, r)
        \/ authorize(p, user, r)

SpecRoles == InitRoles /\ [][NextRoles]_vars

\* --------------------------------------------------------- SpecKeycloak
\* The Keycloak variant with the provider answering, failing or not
\* configured.
MaxKeycloakCalls == 3

InitKeycloak ==
    /\ InitCommon
    /\ hist = NoHistory
    /\ budget = MaxKeycloakCalls
    /\ fileExists = TRUE
    /\ file = SeedDoc

NextKeycloak ==
    \E p \in Procs :
        \/ \E m \in FallbackMethods, c \in BOOLEAN :
              KeycloakAuthService_call(p, m, c)
        \/ KeycloakAuthService_response(p)
        \/ \E t \in {ForgedToken, MalformedToken}, e \in BOOLEAN :
              KeycloakAuthService_logout(p, t, e)
        \/ KeycloakAuthService_logout_response(p)

SpecKeycloak == InitKeycloak /\ [][NextKeycloak]_vars

\* ----------------------------------------------------------- SpecRouter
\* Requests to the auth routes whose handlers the controller does not
\* bind, next to role checks.
MaxRouterCalls == 3

InitRouter ==
    /\ InitCommon
    /\ hist = NoHistory
    /\ budget = MaxRouterCalls
    /\ fileExists = TRUE
    /\ file = SeedDoc

NextRouter ==
    \E p \in Procs :
        \/ \E route \in DetachedRoutes, b \in BOOLEAN :
              AuthRouter_handle(p, route, b)
        \/ \E r \in RequiredRoles :
              authorize(p, [id |-> 1, roles |-> <<"user">>], r)

SpecRouter == InitRouter /\ [][NextRouter]_vars

\* ----------------------------------------------------------- SpecRevoke
\* Logins, logouts of the tokens handed out and requests presenting them
\* to authenticate, while time passes.
MaxRevokeCalls == 4

InitRevoke ==
    /\ InitCommon
    /\ hist = NoHistory
    /\ budget = MaxRevokeCalls
    /\ fileExists = TRUE
    /\ file = SeedDoc

NextRevoke ==
    \/ \E p \in Procs :
         \/ UserRepository_ensureInitialized(p)
         \/ UserRepository_initialized(p)
         \/ RefreshTokenRepository_ensureInitialized(p)
         \/ RefreshTokenRepository_initialized(p)
         \/ TokenBlacklistRepository_ensureInitialized(p)
         \/ TokenBlacklistRepository_initialized(p)
         \/ login(p, "alice@example.com", "password123")
         \/ login_findByEmail(p)
         \/ RefreshTokenRepository_create(p)
         \/ RefreshTokenRepository_created(p)
         \/ \E t \in AccessTokens : logout(p, t)
         \/ logout_addToBlacklist(p)
         \/ logout_return(p)
         \/ \E t \in AccessTokens : authenticate(p, t)
         \/ authenticate_isBlacklisted(p)
         \/ authenticate_findById(p)
    \/ \E r \in {"user", "refresh", "blacklist"} : WriteLands(r)
    \/ Wait

SpecRevoke == InitRevoke /\ [][NextRevoke]_vars

\* --------------------------------------------------------- SpecIdentity
\* Users registered and deleted while the tokens handed out at
\* registration are presented again.
MaxIdentityCalls == 4

InitIdentity ==
    /\ InitCommon
    /\ hist = NoHistory
    /\ budget = MaxIdentityCalls
    /\ fileExists = TRUE
    /\ file = SeedDoc

NextIdentity ==
    \/ \E p \in Procs :
         \/ UserRepository_ensureInitialized(p)
         \/ UserRepository_initialized(p)
         \/ RefreshTokenRepository_ensureInitialized(p)
         \/ RefreshTokenRepository_initialized(p)
         \/ \E e \in Emails : register(p, e)
         \/ register_findByEmail(p)
         \/ register_create(p)
         \/ register_created(p)
         \/ RefreshTokenRepository_create(p)
         \/ RefreshTokenRepository_created(p)
         \/ \E id \in DeleteIds : UserRepository_delete(p, id)
         \/ UserRepository_delete_read(p)
         \/ UserRepository_delete_return(p)
         \/ \E t \in AccessTokens : getUserFromToken(p, t)
         \/ getUserFromToken_findById(p)
         \/ \E r \in hist.tokens : refreshAccessToken(p, r.refresh_token)
         \/ refreshAccessToken_findByToken(p)
         \/ refreshAccessToken_updateLastUsed(p)
         \/ refreshAccessToken_lastUsedUpdated(p)
         \/ refreshAccessToken_findById(p)
    \/ \E r \in {"user", "refresh"} : WriteLands(r)

SpecIdentity == InitIdentity /\ [][NextIdentity]_vars

\* ----------------------------------------------------- SpecRefreshStore
\* The refresh-token repository alone, on the file of SpecFlow: the tokens
\* of a user are removed while other requests stamp and look up tokens.
\* The file has a refreshTokens table, so _ensureInitialized writes nothing.
MaxRefreshStoreCalls == 4

InitRefreshStore ==
    /\ InitCommon
    /\ hist = [NoHistory EXCEPT
                 !.tokens = {[user |-> 1, refresh_token |-> 2,
                              access_token |-> AccessToken(FlowDoc.users[1], 0)],
                             [user |-> 2, refresh_token |-> 3,
                              access_token |-> AccessToken(FlowDoc.users[2], 0)]}]
    /\ budget = MaxRefreshStoreCalls
    /\ fileExists = TRUE
    /\ file = FlowDoc

NextRefreshStore ==
    \/ \E p \in Procs :
         \/ RefreshTokenRepository_ensureInitialized(p)
         \/ \E u \in UserIds : RefreshTokenRepository_deleteByUserId(p, u)
         \/ RefreshTokenRepository_deleteByUserId_read(p)
         \/ RefreshTokenRepository_deleteByUserId_return(p)
         \/ \E t \in FlowRefreshTokens :
               RefreshTokenRepository_updateLastUsed(p, t)
         \/ RefreshTokenRepository_updateLastUsed_read(p)
         \/ RefreshTokenRepository_updateLastUsed_return(p)
         \/ \E t \in FlowRefreshTokens :
               RefreshTokenRepository_findByToken(p, t)
         \/ RefreshTokenRepository_findByToken_read(p)
    \/ WriteLands("refresh")
    \/ Tick

SpecRefreshStore == InitRefreshStore /\ [][NextRefreshStore]_vars

\* --------------------------------------------------------- SpecRegister
\* Registrations, the refresh-token store failing at times.
MaxRegisterCalls == 3

InitRegister ==
    /\ InitCommon
    /\ hist = NoHistory
    /\ budget = MaxRegisterCalls
    /\ fileExists = TRUE
    /\ file = SeedDoc

NextRegister ==
    \/ \E p \in Procs :
         \/ UserRepository_ensureInitialized(p)
         \/ UserRepository_initialized(p)
         \/ RefreshTokenRepository_ensureInitialized(p)
         \/ RefreshTokenRepository_initialized(p)
         \/ \E e \in Emails : register(p, e)
         \/ register_findByEmail(p)
         \/ register_create(p)
         \/ register_created(p)
         \/ register_refreshFails(p)
         \/ RefreshTokenRepository_create(p)
         \/ RefreshTokenRepository_created(p)
    \/ \E r \in {"user", "refresh"} : WriteLands(r)

SpecRegister == InitRegister /\ [][NextRegister]_vars

\* ----------------------------------------------------------- SpecBearer
\* Tokens blacklisted and looked up with and without the 'Bearer ' prefix.
MaxBearerCalls == 3
BearerTokens ==
    LET x == AccessToken(SeedUser(1, "alice@example.com",
                                  hashPassword("password123")), 0)
    IN {x, Bearer(x)}

InitBearer ==
    /\ InitCommon
    /\ hist = NoHistory
    /\ budget = MaxBearerCalls
    /\ fileExists = TRUE
    /\ file = SeedDoc

NextBearer ==
    \/ \E p \in Procs :
         \/ TokenBlacklistRepository_ensureInitialized(p)
         \/ TokenBlacklistRepository_initialized(p)
         \/ \E t \in BearerTokens : blacklistToken(p, t)
         \/ blacklistToken_addToBlacklist(p)
         \/ blacklistToken_return(p)
         \/ \E t \in BearerTokens : isTokenBlacklisted(p, t)
         \/ isTokenBlacklisted_read(p)
    \/ WriteLands("blacklist")

SpecBearer == InitBearer /\ [][NextBearer]_vars

\* the reset records of user u that findByToken would match at time t
ValidResetRecords(d, u, t) ==
    {i \in 1..Len(d.passwordResetTokens) :
        /\ d.passwordResetTokens[i].userId = u
        /\ ~d.passwordResetTokens[i].used
        /\ d.passwordResetTokens[i].expiresAt > t}

\* no revoking call for the user of an issued token has started since the
\* createResetToken call that issued it
Unrevoked(i) == hist.revCalls[i.userId] = i.revAtCall

\* C1: a token returned by createResetToken, called with the file present,
\* is found by a later findByToken made before its expiry and before any
\* markTokenAsUsed / invalidateUserTokens for its user: the result is a
\* record of that user with used = false.
C1_ReturnedTokenIsPersisted ==
    \A p \in Procs :
        (/\ loc[p].op = "findByToken"
         /\ loc[p].pc = "done"
         /\ loc[p].arg.token \in IssuedTokens
         /\ IssuedTo(loc[p].arg.token).filePresent
         /\ Unrevoked(IssuedTo(loc[p].arg.token))
         /\ now < IssuedTo(loc[p].arg.token).expiresAt)
        => /\ loc[p].ret.kind = "record"
           /\ loc[p].ret.rec.userId = IssuedTo(loc[p].arg.token).userId
           /\ loc[p].ret.rec.used = FALSE

\* C6: every user has at most one unused, unexpired reset record in the
\* file, and findByToken on a token returns null once a later
\* createResetToken for the same user has completed.
C6_AtMostOneValidResetToken ==
    /\ \A u \in UserIds : Cardinality(ValidResetRecords(file, u, now)) <= 1
    /\ \A p \in Procs :
         (/\ loc[p].op = "findByToken"
          /\ loc[p].pc = "done"
          /\ loc[p].arg.wasSuperseded)
         => loc[p].ret.kind = "null"

\* the first half of C6 alone
C6_part_AtMostOneValid ==
    \A u \in UserIds : Cardinality(ValidResetRecords(file, u, now)) <= 1

\* the user records whose email equals `email` ignoring letter case
RecordsFor(users, email) ==
    {i \in 1..Len(users) : toLowerCase(users[i].email) = toLowerCase(email)}

\* C8: no two user records in the file have emails that are equal ignoring
\* letter case, whatever the interleaving of register calls.
C8_EmailsUnique ==
    \A i, j \in 1..Len(file.users) :
        i # j => toLowerCase(file.users[i].email) # toLowerCase(file.users[j].email)

\* C9: a register call whose email equals, ignoring letter case, the email
\* of a user in the document its findByEmail read ends with
\* EMAIL_ALREADY_EXISTS (409); the step that rejects it starts no write and
\* leaves the file alone; and when no other request ran alongside, the users
\* and refresh-token tables are those of the time of the call, with exactly
\* one record for that email.
C9_DuplicateRegisterConflicts ==
    [][\A p \in Procs :
         (/\ loc[p].op = "register"
          /\ loc[p].pc # "done"
          /\ loc'[p].pc = "done"
          /\ loc'[p].arg.checked
          /\ RecordsFor(loc'[p].arg.seen, loc[p].arg.email) # {})
         => /\ loc'[p].ret = Failure("EMAIL_ALREADY_EXISTS", 409)
            /\ file' = file
            /\ wInflight' = wInflight
            /\ wNext' = wNext
            /\ ~overlapped' =>
                  /\ file'.users = loc[p].arg.usersAtCall
                  /\ file'.refreshTokens = loc[p].arg.refreshAtCall
                  /\ Cardinality(RecordsFor(file'.users, loc[p].arg.email)) = 1
      ]_vars

\* a second register, with the first one's email in another letter case,
\* has been rejected; the first one's user and refresh token are in the file
C9_Witness ==
    \E p \in Procs :
        /\ loc[p].op = "register"
        /\ loc[p].pc = "done"
        /\ loc[p].ret = Failure("EMAIL_ALREADY_EXISTS", 409)
        /\ ~overlapped
        /\ hist.handedOut # <<>>
        /\ file.refreshTokens # <<>>
        /\ \E i \in 1..Len(file.users) :
              /\ file.users[i].email # loc[p].arg.email
              /\ toLowerCase(file.users[i].email) = toLowerCase(loc[p].arg.email)

\* C10: over a sequence of create and delete calls made one after the
\* other, the ids UserRepository.create returns are strictly increasing.
C10_IdsStrictlyIncreasing ==
    ~overlapped =>
        \A i, j \in 1..Len(hist.handedOut) :
            i < j => hist.handedOut[i] < hist.handedOut[j]

\* C2: once logout(t) has returned, every isTokenBlacklisted(t) made
\* before t's exp answers true, while verifyToken(t) alone still succeeds.
C2_LoggedOutTokenIsBlacklisted ==
    /\ \A p \in Procs :
         (/\ loc[p].op = "isTokenBlacklisted"
          /\ loc[p].pc = "done"
          /\ loc[p].arg.afterLogout
          /\ now < loc[p].arg.token.exp)
         => loc[p].ret = Value(TRUE)
    /\ \A t \in hist.loggedOut :
         now < t.exp => verifyToken(t, now).kind = "record"

\* C3: with calls made one after the other, getUserFromToken(t) called
\* after logout(t) has returned fails with INVALID_TOKEN (401).
C3_GetUserFromTokenAfterLogoutFails ==
    \A p \in Procs :
        (/\ loc[p].op = "getUserFromToken"
         /\ loc[p].pc = "done"
         /\ loc[p].arg.afterLogout
         /\ ~overlapped)
        => loc[p].ret = Failure("INVALID_TOKEN", 401)

\* no request is running and no write is in flight
Quiescent ==
    /\ \A p \in Procs : ~Busy(p)
    /\ \A r \in Repos : ~wInflight[r].busy /\ ~wNext[r].busy
    /\ runq = <<>>

\* C7: when all operations have completed, the file holds the effect of
\* each of them: the refresh token of every completed login and the
\* blacklist entry of every completed logout.
C7_NoCompletedWriteDropped ==
    Quiescent =>
        /\ \A r \in hist.tokens :
              \E i \in 1..Len(file.refreshTokens) :
                  file.refreshTokens[i].token = r.refresh_token
        /\ \A t \in hist.loggedOut :
              \E i \in 1..Len(file.tokenBlacklist) :
                  file.tokenBlacklist[i].tokenHash = generateTokenHash(t)

\* C4: a refreshAccessToken called after resetPassword has returned success
\* for user U, with a refresh token issued to U before, is rejected with
\* INVALID_REFRESH_TOKEN; one called with another user's token is accepted.
C4_ResetRevokesRefreshTokens ==
    \A p \in Procs :
        (loc[p].op = "refreshAccessToken" /\ loc[p].pc = "done")
        => IF loc[p].arg.afterReset
           THEN loc[p].ret = Failure("INVALID_REFRESH_TOKEN", 401)
           ELSE RefreshOwners(loc[p].arg.token) \cap hist.resetDone = {}
                   => loc[p].ret.kind = "record"

\* C5: at most one resetPassword succeeds with a given reset token, under
\* any interleaving, and one called after a success with that token fails
\* with INVALID_RESET_TOKEN (400).
C5_ResetTokenSingleUse ==
    /\ ~hist.resetTwice
    /\ \A p \in Procs :
         (/\ loc[p].op = "resetPassword"
          /\ loc[p].pc = "done"
          /\ loc[p].arg.afterSuccess)
         => loc[p].ret = Failure("INVALID_RESET_TOKEN", 400)

\* the value carries a password hash
ExposesPasswordHash(v) ==
    \/ v.kind = "record" /\ "passwordHash" \in DOMAIN v.rec
    \/ v.kind = "list" /\ \E i \in 1..Len(v.recs) :
                              "passwordHash" \in DOMAIN v.recs[i]

\* C11: no result handed to a caller by register, login, getUserFromToken,
\* refreshAccessToken, GET /users or GET /users/:userId carries the
\* passwordHash field.
C11_PasswordHashNeverExposed ==
    \A p \in Procs :
        (/\ loc[p].pc = "done"
         /\ loc[p].op \in {"register", "login", "getUserFromToken",
                           "refreshAccessToken", "getUsers", "getUserById"})
        => ~ExposesPasswordHash(loc[p].ret)

\* C12: verifyToken on a token generateTokens produced succeeds at every
\* time before its exp and, at every time after it, fails with the code
\* TOKEN_EXPIRED (not INVALID_TOKEN).
C12_ExpiredTokenReportsTokenExpired ==
    \A p \in Procs :
        (/\ loc[p].op = "verifyToken"
         /\ loc[p].pc = "done"
         /\ Signed(loc[p].arg.token))
        => /\ loc[p].arg.at < loc[p].arg.token.exp
                => loc[p].ret = Record(loc[p].arg.token)
           /\ loc[p].arg.at > loc[p].arg.token.exp
                => loc[p].ret = Failure("TOKEN_EXPIRED", 401)

\* C13: every failure of getUserFromToken is the error INVALID_TOKEN with
\* status 401, whatever its cause.
C13_GetUserFromTokenFailsUniformly ==
    \A p \in Procs :
        (/\ loc[p].op = "getUserFromToken"
         /\ loc[p].pc = "done"
         /\ loc[p].ret.kind # "record")
        => loc[p].ret = Failure("INVALID_TOKEN", 401)

\* one request was refused for a genuine, unexpired token whose user has
\* been deleted, and another for a token that is expired, forged or
\* malformed
C13_Witness ==
    \E p, q \in Procs :
        /\ loc[p].op = "getUserFromToken" /\ loc[p].pc = "done"
        /\ loc[p].ret = Failure("INVALID_TOKEN", 401)
        /\ Signed(loc[p].arg.token)
        /\ now < loc[p].arg.token.exp
        /\ findByIdIn(file, loc[p].arg.token.sub) = Null
        /\ loc[q].op = "getUserFromToken" /\ loc[q].pc = "done"
        /\ loc[q].ret = Failure("INVALID_TOKEN", 401)
        /\ ~Signed(loc[q].arg.token)

\* a refresh-token table without the lastUsedAt stamps
WithoutLastUsed(table) ==
    [i \in 1..Len(table) |->
        [token |-> table[i].token, userId |-> table[i].userId,
         expiresAt |-> table[i].expiresAt]]

\* C14: a refreshAccessToken(r) that succeeds returns an access token that
\* verifyToken accepts for r's owner and no refresh token, and, when it ran
\* alone, leaves the refresh-token table as it was but for lastUsedAt; a
\* refreshAccessToken(r) called after one that succeeded, r being neither
\* expired nor revoked, succeeds as well.
C14_RefreshTokenStaysUsable ==
    [][\A p \in Procs :
         (/\ loc[p].op = "refreshAccessToken"
          /\ loc[p].pc # "done"
          /\ loc'[p].pc = "done")
         => /\ loc'[p].ret.kind = "record" =>
                 /\ "refresh_token" \notin DOMAIN loc'[p].ret.rec
                 /\ verifyToken(loc'[p].ret.rec.access_token, now').kind = "record"
                 /\ loc'[p].ret.rec.access_token.sub \in RefreshOwners(loc[p].arg.token)
                 /\ ~overlapped' =>
                       WithoutLastUsed(file'.refreshTokens)
                           = WithoutLastUsed(loc[p].arg.tableAtCall)
            /\ loc[p].arg.afterRefresh => loc'[p].ret.kind = "record"
      ]_vars

\* the four tables of a document
Tables(d) == <<d.users, d.refreshTokens, d.tokenBlacklist, d.passwordResetTokens>>

\* the login of p ends in this step, on an email no user of the document it
\* read has (unknown = TRUE) or on a password that does not match
LoginRejected(p, unknown) ==
    /\ loc[p].op = "login"
    /\ loc[p].pc # "done"
    /\ loc'[p].pc = "done"
    /\ LET hit == findByEmailIn(mem'["user"], loc[p].arg.email)
       IN IF unknown
          THEN hit = Null
          ELSE /\ hit # Null
               /\ ~verifyPassword(loc[p].arg.password, hit.rec.passwordHash)

\* C15: a login with an unknown email and a login with a wrong password end
\* with the same error (INVALID_CREDENTIALS, 401, one message); the step
\* that rejects either starts no write and leaves the file alone, and when
\* no other request ran alongside the tables are those of the time of the
\* call.
C15_LoginFailuresIndistinguishable ==
    [][\A p \in Procs : \A unknown \in BOOLEAN :
         LoginRejected(p, unknown)
         => /\ loc'[p].ret =
                   Thrown("INVALID_CREDENTIALS", 401, InvalidCredentialsMessage)
            /\ file' = file
            /\ wInflight' = wInflight
            /\ wNext' = wNext
            /\ ~overlapped' => Tables(file') = Tables(loc[p].arg.fileAtCall)
      ]_vars

\* one request after the other, a login with an unknown email and a login
\* with a wrong password have both been rejected with the same error, a
\* refresh token of an earlier login being stored
C15_Witness ==
    /\ ~overlapped
    /\ file.refreshTokens # <<>>
    /\ loc[1].op = "login" /\ loc[1].pc = "done"
    /\ loc[2].op = "login" /\ loc[2].pc = "done"
    /\ findByEmailIn(file, loc[1].arg.email) = Null
    /\ findByEmailIn(file, loc[2].arg.email) # Null
    /\ loc[2].arg.password = "wrong"
    /\ loc[1].ret.kind = "error"
    /\ loc[1].ret = loc[2].ret

\* C16: every forgotPassword call, for an email with an account as for one
\* without, ends with the one result object (success = true, the same
\* message), whatever the mail sender answered.
C16_ForgotPasswordSameResult ==
    \A p \in Procs :
        (loc[p].op = "forgotPassword" /\ loc[p].pc = "done")
        => loc[p].ret = Record(ForgotPasswordSent)

\* C17: when the read of the blacklist store fails during the blacklist
\* check of authenticate, isTokenBlacklisted answers true and the middleware
\* replies 401 TOKEN_BLACKLISTED, next() not being called.
C17_BlacklistCheckFailsClosed ==
    \A p \in Procs :
        (/\ loc[p].op = "authenticate"
         /\ loc[p].arg.readFailed)
        => /\ loc[p].pc = "done"
           /\ loc[p].ret = Reply(401, "TOKEN_BLACKLISTED")
           /\ ~loc[p].ret.next
           /\ loc[p].ret.status < 500

\* the blacklist read has failed for a genuine, unexpired token that was
\* never logged out, and the request was refused
C17_Witness ==
    \E p \in Procs :
        /\ loc[p].op = "authenticate"
        /\ loc[p].pc = "done"
        /\ loc[p].arg.readFailed
        /\ loc[p].arg.token \in AccessTokens \ hist.loggedOut
        /\ verifyToken(loc[p].arg.token, now).kind = "record"
        /\ loc[p].ret.code = "TOKEN_BLACKLISTED"

\* addToBlacklist of p returns in this step, no time having passed since
\* the call, which asked for an entry that has not expired yet
AddReturns(p) ==
    /\ loc[p].op = "addToBlacklist"
    /\ loc[p].pc # "done"
    /\ loc'[p].pc = "done"
    /\ now' = loc[p].arg.calledAt
    /\ defaultExpiresAt(loc[p].arg.expiresAt, now) > now

\* C18: when an addToBlacklist(t) call returns, the first or a later one,
\* made alone or next to another, the table holds exactly one entry with the
\* hash of t and isBlacklisted(t), answered from the file as it is at that
\* moment, is true.
C18_BlacklistAddIdempotent ==
    [][\A p \in Procs :
         AddReturns(p)
         => /\ Cardinality(EntriesOf(file', loc[p].arg.token)) = 1
            /\ isBlacklistedIn(file', loc[p].arg.token, now')
      ]_vars

LogoutOps == {"logout", "KeycloakAuthService.logout"}

HashesOf(users) ==
    {<<users[i].id, users[i].passwordHash>> : i \in 1..Len(users)}

\* a changePassword of p ends in this step on a current password that does
\* not match the hash findById read
WrongCurrentPassword(p) ==
    /\ loc[p].op = "changePassword"
    /\ loc[p].pc # "done"
    /\ loc'[p].pc = "done"
    /\ ~loc[p].arg.checked
    /\ LET hit == findByIdIn(mem'["user"], loc[p].arg.userId)
       IN /\ hit # Null
          /\ ~verifyPassword(loc[p].arg.currentPassword, hit.rec.passwordHash)

\* a login of p ends in this step, called after a changePassword had
\* succeeded, none having run since
LoginAfterChange(p) ==
    /\ loc[p].op = "login"
    /\ loc[p].pc # "done"
    /\ loc'[p].pc = "done"
    /\ loc[p].arg.changedTo # <<>>
    /\ hist'.changedTo = loc[p].arg.changedTo
    /\ \A q \in Procs : ~(Busy(q) /\ loc[q].op = "changePassword")

\* C20: a changePassword with a wrong current password ends with
\* INVALID_CURRENT_PASSWORD (400) and leaves the stored hashes as they were;
\* after a changePassword that succeeded a login with the new password
\* succeeds and a login with the old one ends with INVALID_CREDENTIALS.
C20_ChangePasswordTakesEffect ==
    [][\A p \in Procs :
         /\ WrongCurrentPassword(p)
            => /\ loc'[p].ret = Failure("INVALID_CURRENT_PASSWORD", 400)
               /\ file' = file
               /\ wInflight' = wInflight
               /\ ~overlapped' =>
                     HashesOf(file'.users) = HashesOf(loc[p].arg.usersAtCall)
         /\ LoginAfterChange(p)
            => LET new == loc[p].arg.changedTo[Len(loc[p].arg.changedTo)]
               IN IF loc[p].arg.password = new
                  THEN loc'[p].ret.kind = "record"
                  ELSE loc'[p].ret = login_invalidPassword
      ]_vars

\* the order user < readonly-admin < admin
RoleRank(role) ==
    CASE role = "user" -> 1
      [] role = "readonly-admin" -> 2
      [] role = "admin" -> 3
      [] OTHER -> 0

\* some role of the user ranks at or above r
Dominates(user, r) ==
    /\ user # Null
    /\ "roles" \in DOMAIN user
    /\ \E i \in 1..Len(user.roles) :
          /\ RoleRank(user.roles[i]) > 0
          /\ RoleRank(user.roles[i]) >= RoleRank(r)

\* C21: hasRole(user, r) is true exactly when some role of the user ranks
\* at or above r in the order user < readonly-admin < admin; it is false for
\* a missing user and for a user without roles; authorize lets a request
\* through exactly then.
C21_HasRoleFollowsHierarchy ==
    \A p \in Procs :
        /\ (loc[p].op = "hasRole" /\ loc[p].pc = "done")
           => loc[p].ret = Value(Dominates(loc[p].arg.user,
                                           loc[p].arg.requiredRole))
        /\ (loc[p].op = "authorize" /\ loc[p].pc = "done")
           => (loc[p].ret.next
                 <=> Dominates(loc[p].arg.user, loc[p].arg.requiredRole))

\* a readonly-admin has been found to have the role user, and an admin-only
\* route has refused a readonly-admin
C21_Witness ==
    /\ loc[1].op = "hasRole" /\ loc[1].pc = "done"
    /\ loc[1].arg.user = [id |-> 1, roles |-> <<"guest", "readonly-admin">>]
    /\ loc[1].arg.requiredRole = "user"
    /\ loc[1].ret = Value(TRUE)
    /\ loc[2].op = "authorize" /\ loc[2].pc = "done"
    /\ loc[2].arg.user = [id |-> 1, roles |-> <<"readonly-admin">>]
    /\ loc[2].arg.requiredRole = "admin"
    /\ loc[2].ret = Reply(403, "INSUFFICIENT_PERMISSIONS")

\* C22: a login, register, getUserById, getUserByEmail or getUserFromToken
\* of the Keycloak variant that met an unavailable or unconfigured provider
\* ends by returning what the local variant returns, never by throwing.
C22_KeycloakFallsBackToLocal ==
    \A p \in Procs :
        (/\ loc[p].op = "KeycloakAuthService"
         /\ loc[p].pc = "done"
         /\ (~loc[p].arg.configured \/ loc[p].arg.outcome # "json"))
        => loc[p].ret.kind = "delegated"

\* C23: a request to POST /auth/refresh, POST /auth/forgot-password,
\* POST /auth/reset-password or PUT /auth/password is never answered with
\* 500; with a body that passes the schema, forgot-password answers 200 and
\* the others 200 or the 4xx of their domain error.
C23_AuthRoutesMapOutcomes ==
    \A p \in Procs :
        (/\ loc[p].op = "AuthRouter"
         /\ loc[p].pc = "done"
         /\ loc[p].arg.route # "GET /auth/health")
        => /\ loc[p].ret.status # 500
           /\ (loc[p].arg.bodyValid
               /\ loc[p].arg.route = "POST /auth/forgot-password")
              => loc[p].ret.status = 200

\* C24: a request that presents a token after a logout of that token has
\* returned with its blacklist entry written is never passed on by
\* authenticate: it is answered 401, as blacklisted before the token's exp
\* and as expired from then on.
C24_LoggedOutTokenNeverAccepted ==
    \A p \in Procs :
        (/\ loc[p].op = "authenticate"
         /\ loc[p].pc = "done"
         /\ loc[p].arg.afterLogout)
        => ~loc[p].ret.next

\* the email of the user a refresh token was handed to
RefreshIssuedTo(refreshToken) ==
    {r.access_token.email : r \in {h \in hist.tokens :
                                       h.refresh_token = refreshToken}}

\* C25: getUserFromToken(t) fails or returns the user t was issued to (the
\* id and the email in t's claims), and refreshAccessToken(r) fails or
\* signs the new access token for the user r was issued to, whatever
\* registrations and deletions happened in between.
C25_TokenResolvesToItsOwner ==
    \A p \in Procs :
        /\ (/\ loc[p].op = "getUserFromToken"
            /\ loc[p].pc = "done"
            /\ loc[p].ret.kind = "record")
           => /\ loc[p].ret.rec.id = loc[p].arg.token.sub
              /\ loc[p].ret.rec.email = loc[p].arg.token.email
        /\ (/\ loc[p].op = "refreshAccessToken"
            /\ loc[p].pc = "done"
            /\ loc[p].ret.kind = "record")
           => loc[p].ret.rec.access_token.email \in RefreshIssuedTo(loc[p].arg.token)

\* C26: once deleteByUserId(u) has returned, the file holds no refresh
\* token record issued to u before, and a findByToken called from then on
\* with such a token returns null: an updateLastUsed or another store
\* operation that read before the deletion never writes the removed
\* records back.
C26_RevokedRefreshTokensStayRemoved ==
    /\ \A u \in hist.revoked :
          \A i \in 1..Len(file.refreshTokens) :
              file.refreshTokens[i].userId # u
    /\ \A p \in Procs :
          (/\ loc[p].op = "RefreshTokenRepository_findByToken"
           /\ loc[p].pc = "done"
           /\ loc[p].arg.afterRevoke)
          => loc[p].ret = Null

\* C27: a resetPassword call whose password write has been stored ends,
\* by returning or by throwing, with its reset token marked used:
\* findByToken on the token returns null at that moment.
C27_TokenUsedWhenPasswordChanged ==
    \A p \in Procs :
        (/\ loc[p].op = "resetPassword"
         /\ loc[p].pc = "done"
         /\ loc[p].arg.applied)
        => ~loc[p].arg.liveAtReturn

\* C28: a register call that throws leaves no user record of its own in the
\* file, and a register call made when no record has the email (ignoring
\* letter case) and no other request is running does not fail with
\* EMAIL_ALREADY_EXISTS.
C28_RegisterAllOrNothing ==
    \A p \in Procs :
        (/\ loc[p].op = "register"
         /\ loc[p].pc = "done"
         /\ loc[p].ret.kind = "error")
        => /\ ~loc[p].arg.leftBehind
           /\ (/\ loc[p].ret.code = "EMAIL_ALREADY_EXISTS"
               /\ ~overlapped)
              => RecordsFor(loc[p].arg.usersAtCall, loc[p].arg.email) # {}

\* C29: isTokenBlacklisted answers true for a token once blacklistToken has
\* returned for the same token, whether either call was given the token
\* with the 'Bearer ' prefix or without it (calls made one after the other,
\* before the token's exp).
C29_BlacklistIgnoresBearerPrefix ==
    \A p \in Procs :
        (/\ loc[p].op = "isTokenBlacklisted"
         /\ loc[p].pc = "done"
         /\ loc[p].arg.afterLogout
         /\ ~overlapped)
        => loc[p].ret = Value(TRUE)

\* the tokens findByToken would return a record for, on a table at time t
FindableIn(recs, t) ==
    {recs[i].token : i \in {j \in 1..Len(recs) :
                               ~recs[j].used /\ recs[j].expiresAt > t}}

\* C30: the table cleanupExpiredTokens leaves holds no used and no expired
\* reset record, every record that was unused and unexpired is still in it,
\* and findByToken answers the same on the table before and after.
C30_CleanupRemovesUsedAndExpired ==
    [][\A p \in Procs :
          (/\ AtRead(p, "reset", "cleanupExpiredTokens", 1)
           /\ loc'[p].op = "cleanupExpiredTokens"
           /\ loc'[p].pc \in {"written", "done"}
           /\ loc'[p].ret.kind = "value")
          => LET before == LowRead("reset").passwordResetTokens
                 after  == mem'["reset"].passwordResetTokens
             IN /\ \A i \in 1..Len(after) :
                      ~after[i].used /\ after[i].expiresAt > now
                /\ \A i \in 1..Len(before) :
                      (~before[i].used /\ before[i].expiresAt > now)
                      => \E j \in 1..Len(after) : after[j] = before[i]
                /\ FindableIn(after, now) = FindableIn(before, now)]_vars

====
